---- MODULE Spec2Model ----
(***************************************************************************)
(* auto-adb: the ADB frame transport (AdbSocket), the track-devices        *)
(* session (DeviceTracker) and the roster diff engine (DeviceSet).         *)
(*                                                                         *)
(* Representation.  A byte of the TCP stream is written as the one-        *)
(* character string of the 7-bit ASCII character it encodes, a Buffer and  *)
(* a JS string are sequences of such characters (Buffer.toString() and     *)
(* socket.write(string) are the UTF-8 codec, which maps 7-bit ASCII to the *)
(* same code).  NaN is written NaN (-1): the code only tests it with > 0.  *)
(*                                                                         *)
(* Scheduling.  Node runs one callback at a time.  An action of this       *)
(* module is one synchronous segment of the code: from the call or the     *)
(* resumption of an await up to the next await.  Socket events (connect,   *)
(* data, close, error) are macrotasks: they fire only when no promise      *)
(* continuation is runnable (MicrotaskRunnable).  A caller's stop() may    *)
(* come from a continuation of the caller's own, so it interleaves at any  *)
(* await boundary.                                                         *)
(***************************************************************************)
EXTENDS Integers, Sequences, FiniteSets, TLC

(***************************************************************************)
(* Bounds of the model                                                     *)
(***************************************************************************)
\* number of roster frames the daemon sends after OKAY (the initial one included)
MaxFrames == 2
\* a 'data' chunk holds 1..MaxChunk bytes, or everything the daemon has left
MaxChunk == 2
\* entries in a roster handed to the diff engine directly
MaxRosterLen == 2
\* readExactBytes(n) of the free-standing readers: n in 1..MaxRead
MaxRead == 3
\* calls of start() after the first one
MaxStartCalls == 1
\* lines in a payload handed to parseDeviceData directly
MaxLines == 2

\* results of getDevices() a caller keeps
MaxQueries == 2

\* pieces of text a command handed to replaceTemplateVars is made of
MaxPieces == 2

\* rosters the tracker emits while the app runs
MaxRosters == 2

NaN == -1

(***************************************************************************)
(* Sequence helpers                                                        *)
(***************************************************************************)
Take(s, n) == SubSeq(s, 1, n)
Drop(s, n) == SubSeq(s, n + 1, Len(s))
Range(s) == {s[i] : i \in 1..Len(s)}

RECURSIVE Flatten(_)
Flatten(ss) == IF ss = <<>> THEN <<>> ELSE Head(ss) \o Flatten(Tail(ss))

RECURSIVE SeqsUpTo(_, _)
SeqsUpTo(S, n) ==
  IF n = 0 THEN {<<>>}
  ELSE LET shorter == SeqsUpTo(S, n - 1)
       IN shorter \cup {Append(s, x) : s \in {t \in shorter : Len(t) = n - 1}, x \in S}

(***************************************************************************)
(* adb-protocol.ts                                                         *)
(***************************************************************************)
OKAY == <<"O", "K", "A", "Y">>
FAIL == <<"F", "A", "I", "L">>
TRACK_DEVICES_COMMAND ==
  <<"h", "o", "s", "t", ":", "t", "r", "a", "c", "k", "-", "d", "e", "v", "i", "c", "e", "s">>

\* enum DeviceStatus: the member values
DeviceStatus ==
  {"offline", "device", "unauthorized", "authorizing", "no permissions",
   "bootloader", "recovery", "unknown"}

\* enum DeviceStatus: member name (as characters) -> member value
DeviceStatusMembers ==
  { << <<"O", "F", "F", "L", "I", "N", "E">>, "offline" >>,
    << <<"D", "E", "V", "I", "C", "E">>, "device" >>,
    << <<"U", "N", "A", "U", "T", "H", "O", "R", "I", "Z", "E", "D">>, "unauthorized" >>,
    << <<"A", "U", "T", "H", "O", "R", "I", "Z", "I", "N", "G">>, "authorizing" >>,
    << <<"N", "O", "_", "P", "E", "R", "M", "I", "S", "S", "I", "O", "N", "S">>, "no permissions" >>,
    << <<"B", "O", "O", "T", "L", "O", "A", "D", "E", "R">>, "bootloader" >>,
    << <<"R", "E", "C", "O", "V", "E", "R", "Y">>, "recovery" >>,
    << <<"U", "N", "K", "N", "O", "W", "N">>, "unknown" >> }

LowerLetters ==
  <<"a", "b", "c", "d", "e", "f", "g", "h", "i", "j", "k", "l", "m",
    "n", "o", "p", "q", "r", "s", "t", "u", "v", "w", "x", "y", "z">>
UpperLetters ==
  <<"A", "B", "C", "D", "E", "F", "G", "H", "I", "J", "K", "L", "M",
    "N", "O", "P", "Q", "R", "S", "T", "U", "V", "W", "X", "Y", "Z">>

\* String.prototype.toUpperCase, one character
UpperChar(c) ==
  IF \E i \in 1..26 : LowerLetters[i] = c
  THEN UpperLetters[CHOOSE i \in 1..26 : LowerLetters[i] = c]
  ELSE c

toUpperCase(s) == [i \in 1..Len(s) |-> UpperChar(s[i])]

\* DeviceStatus[status.toUpperCase()] || DeviceStatus.UNKNOWN
DeviceStatus_fromString(status) ==
  LET key == toUpperCase(status)
  IN IF \E m \in DeviceStatusMembers : m[1] = key
     THEN (CHOOSE m \in DeviceStatusMembers : m[1] = key)[2]
     ELSE "unknown"

(***************************************************************************)
(* Hexadecimal lengths                                                     *)
(***************************************************************************)
HexDigits ==
  <<"0", "1", "2", "3", "4", "5", "6", "7", "8", "9", "a", "b", "c", "d", "e", "f">>

IsHexChar(c) == \E i \in 1..16 : HexDigits[i] = c \/ UpperChar(HexDigits[i]) = c

HexValue(c) == (CHOOSE i \in 1..16 : HexDigits[i] = c \/ UpperChar(HexDigits[i]) = c) - 1

\* Number.prototype.toString(16)
RECURSIVE toString16(_)
toString16(n) ==
  IF n < 16 THEN <<HexDigits[n + 1]>>
  ELSE Append(toString16(n \div 16), HexDigits[(n % 16) + 1])

\* String.prototype.padStart(width, '0')
RECURSIVE padStart0(_, _)
padStart0(s, width) == IF Len(s) >= width THEN s ELSE padStart0(<<"0">> \o s, width)

\* A JS string is the sequence of its characters.  An ASCII character is
\* written as itself; U+00E9, U+20AC and U+1F600 stand for characters outside
\* ASCII.  A byte outside ASCII is written as its two hexadecimal digits.
NonAscii == {"U+00E9", "U+20AC", "U+1F600"}

\* the UTF-16 code units of a character: two for a character outside the BMP
CodeUnits(c) == IF c = "U+1F600" THEN 2 ELSE 1

\* String.prototype.length: the number of UTF-16 code units
StringLength(s) == Len(s) + Cardinality({i \in 1..Len(s) : CodeUnits(s[i]) = 2})

\* the UTF-8 encoding of a character
Utf8Bytes(c) ==
  CASE c = "U+00E9" -> <<"C3", "A9">>
    [] c = "U+20AC" -> <<"E2", "82", "AC">>
    [] c = "U+1F600" -> <<"F0", "9F", "98", "80">>
    [] OTHER -> <<c>>

\* socket.write(string): the string in UTF-8 (an ASCII string is its own encoding)
encodeUtf8(s) ==
  IF \A i \in 1..Len(s) : s[i] \notin NonAscii THEN s
  ELSE Flatten([i \in 1..Len(s) |-> Utf8Bytes(s[i])])

\* parseInt(str, 16) on strings without sign, blank or 0x prefix: the value of
\* the longest prefix of hexadecimal digits, NaN when that prefix is empty
RECURSIVE HexPrefixValue(_, _)
HexPrefixValue(s, acc) ==
  IF s = <<>> \/ ~IsHexChar(Head(s)) THEN acc
  ELSE HexPrefixValue(Tail(s), acc * 16 + HexValue(Head(s)))

\* (mutant) parseInt(str) without the radix: decimal digits only
RECURSIVE DecPrefixValue(_, _)
DecPrefixValue(s, acc) ==
  IF s = <<>> \/ ~IsHexChar(Head(s)) \/ HexValue(Head(s)) > 9 THEN acc
  ELSE DecPrefixValue(Tail(s), acc * 10 + HexValue(Head(s)))

parseInt_noRadix(s) ==
  IF s = <<>> \/ ~IsHexChar(Head(s)) \/ HexValue(Head(s)) > 9 THEN NaN ELSE DecPrefixValue(s, 0)

parseInt16(s) ==
  IF s = <<>> \/ ~IsHexChar(Head(s)) THEN NaN ELSE HexPrefixValue(s, 0)

(***************************************************************************)
(* device-tracker.ts: parseDeviceData                                      *)
(***************************************************************************)
IsSpace(c) == c \in {" ", "\t", "\n", "\r", "\f"}

\* String.prototype.trim
RECURSIVE trimStart(_)
trimStart(s) == IF s # <<>> /\ IsSpace(Head(s)) THEN trimStart(Tail(s)) ELSE s
RECURSIVE trimEnd(_)
trimEnd(s) == IF s # <<>> /\ IsSpace(s[Len(s)]) THEN trimEnd(Take(s, Len(s) - 1)) ELSE s
trim(s) == trimEnd(trimStart(s))

\* String.prototype.split('\n')
RECURSIVE splitLines(_)
splitLines(s) ==
  IF \E i \in 1..Len(s) : s[i] = "\n"
  THEN LET i == CHOOSE k \in 1..Len(s) : s[k] = "\n" /\ \A j \in 1..(k - 1) : s[j] # "\n"
       IN <<Take(s, i - 1)>> \o splitLines(Drop(s, i))
  ELSE <<s>>

\* String.prototype.split(/\s+/)
RECURSIVE splitSpaces(_)
splitSpaces(s) ==
  IF \E i \in 1..Len(s) : IsSpace(s[i])
  THEN LET i == CHOOSE k \in 1..Len(s) : IsSpace(s[k]) /\ \A j \in 1..(k - 1) : ~IsSpace(s[j])
       IN <<Take(s, i - 1)>> \o splitSpaces(trimStart(Drop(s, i)))
  ELSE <<s>>

\* (mutant) a line with more than two parts is taken too
parseLine_twoOrMore(line) ==
  LET trimmedLine == trim(line)
      parts == splitSpaces(trimmedLine)
  IN IF trimmedLine # <<>> /\ Len(parts) >= 2
     THEN << [id |-> parts[1], status |-> DeviceStatus_fromString(parts[2])] >>
     ELSE <<>>

\* one iteration of the for loop of parseDeviceData
parseLine(line) ==
  LET trimmedLine == trim(line)
      parts == splitSpaces(trimmedLine)
  IN IF trimmedLine # <<>> /\ Len(parts) = 2
     THEN << [id |-> parts[1], status |-> DeviceStatus_fromString(parts[2])] >>
     ELSE <<>>

RECURSIVE parseLines(_)
parseLines(lines) ==
  IF lines = <<>> THEN <<>> ELSE parseLine(Head(lines)) \o parseLines(Tail(lines))

parseDeviceData(deviceData) == parseLines(splitLines(deviceData))

(***************************************************************************)
(* device-tracker.ts: DeviceSet                                            *)
(***************************************************************************)
\* (mutant) the map keeps every entry of the list, repeated keys included
MapFrom_keepsRepeats(list, acc) == acc \o list

\* new Map(list.map(d => [d.id, d])): the entries in order of first insertion
\* of their key, each key with the value inserted last
RECURSIVE MapFrom(_, _)
MapFrom(list, acc) ==
  IF list = <<>> THEN acc
  ELSE LET d == Head(list)
       IN IF \E i \in 1..Len(acc) : acc[i].id = d.id
          THEN MapFrom(Tail(list), [i \in 1..Len(acc) |-> IF acc[i].id = d.id THEN d ELSE acc[i]])
          ELSE MapFrom(Tail(list), Append(acc, d))

MapHas(m, id) == \E i \in 1..Len(m) : m[i].id = id
MapGet(m, id) == m[CHOOSE i \in 1..Len(m) : m[i].id = id]

\* (mutant) the third loop tests the old map instead of the new one
ComputeChangeset_removedFromOld(oldDevices, newDevices) ==
  LET oldDeviceMap == MapFrom(oldDevices, <<>>)
      newDeviceMap == MapFrom(newDevices, <<>>)
      isAdded(d) == ~MapHas(oldDeviceMap, d.id)
      isChanged(d) == MapHas(oldDeviceMap, d.id) /\ MapGet(oldDeviceMap, d.id).status # d.status
      isRemoved(d) == ~MapHas(oldDeviceMap, d.id)
      changedOnes == SelectSeq(newDeviceMap, isChanged)
  IN [ added |-> SelectSeq(newDeviceMap, isAdded),
       removed |-> SelectSeq(oldDeviceMap, isRemoved),
       changed |-> [i \in 1..Len(changedOnes) |->
                      [ device |-> changedOnes[i],
                        oldStatus |-> MapGet(oldDeviceMap, changedOnes[i].id).status,
                        newStatus |-> changedOnes[i].status ]] ]

\* the three loops of handleDeviceChange that fill the changeset
ComputeChangeset(oldDevices, newDevices) ==
  LET oldDeviceMap == MapFrom(oldDevices, <<>>)
      newDeviceMap == MapFrom(newDevices, <<>>)
      isAdded(d) == ~MapHas(oldDeviceMap, d.id)
      isChanged(d) == MapHas(oldDeviceMap, d.id) /\ MapGet(oldDeviceMap, d.id).status # d.status
      isRemoved(d) == ~MapHas(newDeviceMap, d.id)
      changedOnes == SelectSeq(newDeviceMap, isChanged)
  IN [ added |-> SelectSeq(newDeviceMap, isAdded),
       removed |-> SelectSeq(oldDeviceMap, isRemoved),
       changed |-> [i \in 1..Len(changedOnes) |->
                      [ device |-> changedOnes[i],
                        oldStatus |-> MapGet(oldDeviceMap, changedOnes[i].id).status,
                        newStatus |-> changedOnes[i].status ]] ]

\* (mutant) the filter forgets the changed entries
ApplyChangeset_keepsChanged(oldDevices, cs) ==
  LET kept(d) == ~\E i \in 1..Len(cs.removed) : cs.removed[i].id = d.id
  IN SelectSeq(oldDevices, kept)
       \o cs.added
       \o [i \in 1..Len(cs.changed) |-> cs.changed[i].device]

\* "apply changes": the roster that replaces this.devices
ApplyChangeset(oldDevices, cs) ==
  LET kept(d) == /\ ~\E i \in 1..Len(cs.removed) : cs.removed[i].id = d.id
                 /\ ~\E i \in 1..Len(cs.changed) : cs.changed[i].device.id = d.id
  IN SelectSeq(oldDevices, kept)
       \o cs.added
       \o [i \in 1..Len(cs.changed) |-> cs.changed[i].device]

\* (mutant) the filter keeps every entry that is not offline
getConnectedDevices_notOffline(devs) == SelectSeq(devs, LAMBDA d : d.status # "offline")

\* DeviceSet.getConnectedDevices
getConnectedDevices(devs) == SelectSeq(devs, LAMBDA d : d.status = "device")

\* no call of getConnectedDevices() yet
NotCalled == [called |-> FALSE, devices |-> <<>>, result |-> <<>>]

EmptyChangeset == [added |-> <<>>, removed |-> <<>>, changed |-> <<>>]

(***************************************************************************)
(* The daemon (wire protocol of the spec, section 6)                       *)
(***************************************************************************)
IdA == <<"a">>
IdB == <<"b">>
IdC == <<"c">>

\* the status column as the daemon prints it
StatusText(status) ==
  CASE status = "device" -> <<"d", "e", "v", "i", "c", "e">>
    [] status = "offline" -> <<"o", "f", "f", "l", "i", "n", "e">>
    [] status = "unauthorized" -> <<"u", "n", "a", "u", "t", "h", "o", "r", "i", "z", "e", "d">>

\* one line per device: <id> TAB <status> LF
RECURSIVE RenderRoster(_)
RenderRoster(roster) ==
  IF roster = <<>> THEN <<>>
  ELSE Head(roster).id \o <<"\t">> \o StatusText(Head(roster).status) \o <<"\n">>
         \o RenderRoster(Tail(roster))

\* <4 lowercase hex digits = byte length of the payload><payload>
EncodeFrame(payload) == padStart0(toString16(Len(payload)), 4) \o payload

\* the rosters the daemon reports in the session model (payloads of 0, 9, 10 and 18 bytes)
ScriptRosters ==
  { <<>>,
    << [id |-> IdA, status |-> "device"] >>,
    << [id |-> IdA, status |-> "offline"] >>,
    << [id |-> IdA, status |-> "device"], [id |-> IdB, status |-> "device"] >> }

RosterFrames(rosters) == Flatten([i \in 1..Len(rosters) |-> EncodeFrame(RenderRoster(rosters[i]))])

\* what the daemon may answer to host:track-devices: OKAY, FAIL (alone or
\* followed by a length-prefixed reason), or four bytes that are neither
HandshakeAnswers ==
  { OKAY, FAIL, FAIL \o EncodeFrame(<<"n", "o">>), <<"O", "K", "O", "K">> }

\* the byte streams offered to the free-standing readers of the transport model
SocketWires == { <<"a", "b", "c", "d", "e", "f">> }

\* the rosters handed directly to the diff engine
DiffEntries ==
  { [id |-> IdA, status |-> "device"], [id |-> IdA, status |-> "unauthorized"],
    [id |-> IdB, status |-> "offline"], [id |-> IdB, status |-> "device"],
    [id |-> IdC, status |-> "device"] }
DiffRosters == SeqsUpTo(DiffEntries, MaxRosterLen)

(***************************************************************************)
(* State                                                                   *)
(***************************************************************************)
VARIABLES
  \* the peer and net.Socket
  wire,          \* every byte the daemon will ever send on this connection
  delivered,     \* how many of them 'data' events have handed over
  sock,          \* net.Socket: idle, connecting, open, ended, errored, destroyed, closed
  streamErr,     \* net.Socket: the error its 'error' event carried, NoError if none
  written,       \* the strings given to socket.write on the current connection
  \* AdbSocket
  buffer,        \* this.buffer
  isConnected,   \* this.isConnected
  pending,       \* the onData/onError listener pairs of suspended reads, in registration order
  rd,            \* the promise of each reader's readExactBytes call
  connectP,      \* the promise of connect(): none, pending, resolved, rejected, done
  wfc,           \* waitForClose().then(...): none, waiting, resolved, rejected, done, unhandled
  \* DeviceTracker
  tracking,      \* this.tracking
  pcStart,       \* where start() is
  pcLoop,        \* where readLoop() is
  startError,    \* the error start() rejected with
  hasErrorListener, \* whether anything listens to the tracker's 'error' event
  \* DeviceSet
  devices,       \* this.devices
  changeset,     \* the changeset of the last handleDeviceChange
  \* the process
  uncaught,      \* uncaught exceptions and unhandled rejections
  \* history
  script,        \* the rosters the daemon sends, in order
  consumed,      \* how many bytes readExactBytes calls have taken out of the buffer
  emitted,       \* the payloads of the devicesChanged events, in order
  events,        \* the names of the events the tracker emitted, in order
  prevDevices,   \* this.devices before the last handleDeviceChange
  lastRoster,    \* the argument of the last handleDeviceChange
  updated,       \* handleDeviceChange has run
  held,          \* the arrays getDevices() returned: as returned, as they are now, and whether this.devices is that array
  callerStopped, \* the caller has called stop()
  stoppedIn,     \* where start() was when the caller called stop()
  errorEvents,   \* the arguments of the tracker's 'error' events, in order
  startCalls,    \* the later calls of start(): whether each returned at once, and the rosters emitted before it
  \* a caller of sendCommand
  cmd,           \* the command text it passes
  pcSend,        \* where sendCommand() is: idle, awaitStatus, returned, threw
  sendError,     \* the error sendCommand() threw
  \* a caller of parseDeviceData
  deviceData,    \* the payload it passes
  deviceInfos,   \* the list it got back
  \* a caller of getConnectedDevices
  connectedSeen, \* its last call: this.devices at the call and the list it got back
  \* a caller of replaceTemplateVars
  templated,     \* its last call: the arguments and the text it got back
  \* the app (index.ts)
  commands,      \* args.commands
  cleanupCommands, \* args.cleanupCommands
  listenerRuns,  \* the calls of the devicesChanged listener, one per event: where each is, and its execa calls
  cleanupCalled, \* the flag `called` of executeAndReturnOnce
  cleanup,       \* where the cleanup batch is, and its execa calls
  laterSigint,   \* a SIGINT has arrived after the first one
  exited         \* whether the process has ended, and how

vars ==
  << wire, delivered, sock, streamErr, written, buffer, isConnected, pending, rd, connectP, wfc,
     tracking, pcStart, pcLoop, startError, hasErrorListener, devices, changeset,
     uncaught, script, consumed, emitted, events, prevDevices, lastRoster,
     callerStopped, stoppedIn, errorEvents, startCalls, cmd, pcSend, sendError,
     deviceData, deviceInfos, updated, held, connectedSeen, templated,
     commands, cleanupCommands, listenerRuns, cleanupCalled, cleanup, laterSigint, exited >>

\* the callers added to the model after the session: none of the operations
\* above touches them
appVars == << commands, cleanupCommands, listenerRuns, cleanupCalled, cleanup, laterSigint, exited >>
clientVars == << connectedSeen, templated, appVars >>

\* what no operation of the session, the transport or the diff engine touches
callerVars == << startCalls, cmd, pcSend, sendError, deviceData, deviceInfos, clientVars >>

socketVars == << wire, delivered, sock, streamErr, written, buffer, isConnected, pending, rd, connectP, consumed >>
trackerVars == << tracking, pcStart, pcLoop, startError, hasErrorListener, wfc, emitted, events,
                  callerStopped, stoppedIn, script >>
deviceSetVars == << devices, changeset, prevDevices, lastRoster, updated, held >>

Readers == {"start", "loop", "cmd", "r1", "r2"}
FreeReaders == {"r1", "r2"}

\* an Error object: its message, and the text the message quotes
Err(message, detail) == [message |-> message, detail |-> detail]
NoError == Err("", <<>>)

Idle == [st |-> "idle", val |-> <<>>, err |-> NoError, n |-> 0, from |-> 0]
Settled(p) == p.st \in {"resolved", "rejected"}

\* the error a socket 'error' event carries
SocketError(code) == Err(code, <<>>)

\* the argument of the socket's 'close' event
hadError == streamErr # NoError

(***************************************************************************)
(* adb-socket.ts: AdbSocket                                                *)
(***************************************************************************)
\* The receive side as one value.  A settled read keeps, beside its bytes, the
\* n it asked for and the stream offset its bytes were taken at.
RecvState == [buffer |-> buffer, pending |-> pending, rd |-> rd, consumed |-> consumed]

\* resolve(result) after result = buffer.subarray(0, n); buffer = buffer.subarray(n)
TakeBytes(S, who, n) ==
  [ buffer |-> Drop(S.buffer, n),
    pending |-> SelectSeq(S.pending, LAMBDA l : l.who # who),
    rd |-> [S.rd EXCEPT ![who] = [st |-> "resolved", val |-> Take(S.buffer, n), err |-> NoError,
                                  n |-> S.rd[who].n, from |-> S.consumed]],
    consumed |-> S.consumed + Len(Take(S.buffer, n)) ]

\* readExactBytes(n) called by `who`: served from the buffer, or suspended on
\* the 'data' and 'error' events
readExactBytes(S, who, n) ==
  LET called == [S EXCEPT !.rd = [S.rd EXCEPT ![who] = [st |-> "pending", val |-> <<>>,
                                                        err |-> NoError, n |-> n, from |-> 0]]]
  IN IF Len(S.buffer) >= n
     THEN TakeBytes(called, who, n)
     ELSE [called EXCEPT !.pending = Append(S.pending, [who |-> who, n |-> n])]

\* (mutant) hands over everything buffered once n bytes are there
onData_takesAll(S, l) == IF Len(S.buffer) >= l.n THEN TakeBytes(S, l.who, Len(S.buffer)) ELSE S

\* onData of one suspended read
onData(S, l) == IF Len(S.buffer) >= l.n THEN TakeBytes(S, l.who, l.n) ELSE S

\* this.emit('data', data): the listeners registered at the time, in order
RECURSIVE emitData(_, _)
emitData(S, listeners) ==
  IF listeners = <<>> THEN S ELSE emitData(onData(S, Head(listeners)), Tail(listeners))

\* socket.on('data'): append the chunk, then emit 'data'
socketOnData(S, data) ==
  LET S1 == [S EXCEPT !.buffer = S.buffer \o data]
  IN emitData(S1, S1.pending)

\* this.emit('error', err) with suspended reads: onError of each rejects it
emitError(S, err) ==
  [S EXCEPT !.pending = <<>>,
            !.rd = [who \in Readers |->
                      IF \E i \in 1..Len(S.pending) : S.pending[i].who = who
                      THEN [st |-> "rejected", val |-> <<>>, err |-> err, n |-> S.rd[who].n, from |-> 0]
                      ELSE S.rd[who]]]

\* socket.destroy(): a socket not yet closed is destroyed, 'close' follows
destroy(s) == IF s \in {"idle", "connecting", "open", "ended"} THEN "destroyed" ELSE s

\* waitForClose(): settled at once when not connected, else on 'close' or 'error'
waitForClose(connected) == IF ~connected THEN "resolved" ELSE "waiting"

UncaughtSocketError == "uncaughtException: AdbSocket 'error' without listener"
UnhandledReadLoop == "unhandledRejection: readLoop"
UnhandledWaitForClose == "unhandledRejection: waitForClose().then"

\* a promise continuation is ready to run
MicrotaskRunnable ==
  \/ pcStart = "awaitConnect" /\ connectP \in {"resolved", "rejected"}
  \/ pcStart \in {"awaitStatus", "awaitHeader", "awaitPayload"} /\ Settled(rd["start"])
  \/ pcLoop \in {"awaitHeader", "awaitPayload"} /\ Settled(rd["loop"])
  \/ wfc \in {"resolved", "rejected"}
  \/ \E r \in FreeReaders : Settled(rd[r])
  \/ pcSend = "awaitStatus" /\ Settled(rd["cmd"])

\* the process has exited: an exception thrown out of an event handler, or a
\* rejection still unhandled once the continuations have run
ProcessExited ==
  \/ UncaughtSocketError \in uncaught
  \/ uncaught # {} /\ ~MicrotaskRunnable

\* the event loop may dispatch the next socket event
EventLoopTurn == ~MicrotaskRunnable /\ uncaught = {}

\* socket 'connect': the constructor's handler, then connect()'s onConnect
OnSocketConnect ==
  /\ EventLoopTurn
  /\ sock = "connecting"
  /\ sock' = "open"
  /\ isConnected' = TRUE
  /\ connectP' = IF connectP = "pending" THEN "resolved" ELSE connectP
  /\ UNCHANGED callerVars
  /\ UNCHANGED << wire, delivered, streamErr, written, buffer, pending, rd, consumed, wfc, uncaught >>
  /\ UNCHANGED << tracking, pcStart, pcLoop, startError, hasErrorListener, emitted, events, errorEvents,
                  callerStopped, stoppedIn, script >>
  /\ UNCHANGED deviceSetVars

\* socket 'data' with a chunk of k bytes
OnSocketData(k) ==
  /\ EventLoopTurn
  /\ sock = "open"
  /\ k >= 1
  /\ delivered + k <= Len(wire)
  /\ LET S == socketOnData(RecvState, SubSeq(wire, delivered + 1, delivered + k))
     IN /\ buffer' = S.buffer
        /\ pending' = S.pending
        /\ rd' = S.rd
        /\ consumed' = S.consumed
  /\ delivered' = delivered + k
  /\ UNCHANGED callerVars
  /\ UNCHANGED << wire, sock, streamErr, written, isConnected, connectP, wfc, uncaught >>
  /\ UNCHANGED << tracking, pcStart, pcLoop, startError, hasErrorListener, emitted, events, errorEvents,
                  callerStopped, stoppedIn, script >>
  /\ UNCHANGED deviceSetVars

\* the peer closes the stream: 'end' has no listener, the socket ends itself
PeerEnds ==
  /\ EventLoopTurn
  /\ sock = "open"
  /\ sock' = "ended"
  /\ UNCHANGED callerVars
  /\ UNCHANGED << wire, delivered, streamErr, written, buffer, isConnected, pending, rd, connectP, consumed,
                  wfc, uncaught >>
  /\ UNCHANGED << tracking, pcStart, pcLoop, startError, hasErrorListener, emitted, events, errorEvents,
                  callerStopped, stoppedIn, script >>
  /\ UNCHANGED deviceSetVars

\* socket 'error' (err): the constructor's handler first; its emit('error')
\* throws when the AdbSocket has no 'error' listener, and then the listeners
\* of connect() and waitForClose() are not reached
OnSocketError(err) ==
  /\ EventLoopTurn
  /\ sock \in {"connecting", "open"}
  /\ sock' = "errored"
  /\ streamErr' = err
  /\ isConnected' = FALSE
  /\ IF pending = <<>>
     THEN /\ uncaught' = uncaught \cup {UncaughtSocketError}
          /\ UNCHANGED << pending, rd, connectP, wfc >>
     ELSE /\ LET S == emitError(RecvState, err)
             IN pending' = S.pending /\ rd' = S.rd
          /\ connectP' = IF connectP = "pending" THEN "rejected" ELSE connectP
          /\ wfc' = IF wfc = "waiting" THEN "rejected" ELSE wfc
          /\ UNCHANGED uncaught
  /\ UNCHANGED callerVars
  /\ UNCHANGED << wire, delivered, written, buffer, consumed >>
  /\ UNCHANGED << tracking, pcStart, pcLoop, startError, hasErrorListener, emitted, events, errorEvents,
                  callerStopped, stoppedIn, script >>
  /\ UNCHANGED deviceSetVars

\* (mutant) the 'close' handler also fails the suspended reads
OnSocketClose_failsReads ==
  /\ EventLoopTurn
  /\ sock \in {"ended", "errored", "destroyed"}
  /\ sock' = "closed"
  /\ isConnected' = FALSE
  /\ wfc' = IF wfc = "waiting" THEN "resolved" ELSE wfc
  /\ LET S == emitError(RecvState, SocketError("closed"))
     IN pending' = S.pending /\ rd' = S.rd
  /\ UNCHANGED callerVars
  /\ UNCHANGED << wire, delivered, streamErr, written, buffer, connectP, consumed, uncaught >>
  /\ UNCHANGED << tracking, pcStart, pcLoop, startError, hasErrorListener, emitted, events, errorEvents,
                  callerStopped, stoppedIn, script >>
  /\ UNCHANGED deviceSetVars

\* socket 'close': the constructor's handler, then waitForClose()'s resolve
OnSocketClose ==
  /\ EventLoopTurn
  /\ sock \in {"ended", "errored", "destroyed"}
  /\ sock' = "closed"
  /\ isConnected' = FALSE
  /\ wfc' = IF wfc = "waiting" THEN "resolved" ELSE wfc
  /\ UNCHANGED callerVars
  /\ UNCHANGED << wire, delivered, streamErr, written, buffer, pending, rd, connectP, consumed, uncaught >>
  /\ UNCHANGED << tracking, pcStart, pcLoop, startError, hasErrorListener, emitted, events, errorEvents,
                  callerStopped, stoppedIn, script >>
  /\ UNCHANGED deviceSetVars

\* connect(): resolved at once when connected, else socket.connect(port, host)
CallConnect ==
  /\ ~ProcessExited
  /\ pcStart = "idle"
  /\ connectP = "none"
  /\ sock = "idle"
  /\ connectP' = IF isConnected THEN "resolved" ELSE "pending"
  /\ sock' = IF isConnected THEN sock ELSE "connecting"
  /\ UNCHANGED callerVars
  /\ UNCHANGED << wire, delivered, streamErr, written, buffer, isConnected, pending, rd, consumed, wfc, uncaught >>
  /\ UNCHANGED << tracking, pcStart, pcLoop, startError, hasErrorListener, emitted, events, errorEvents,
                  callerStopped, stoppedIn, script >>
  /\ UNCHANGED deviceSetVars

\* disconnect(): socket.destroy(); this.isConnected = false
disconnect ==
  /\ sock' = destroy(sock)
  /\ isConnected' = FALSE

CallDisconnect ==
  /\ ~ProcessExited
  /\ pcStart = "idle"
  /\ sock \in {"connecting", "open", "ended"}
  /\ disconnect
  /\ UNCHANGED callerVars
  /\ UNCHANGED << wire, delivered, streamErr, written, buffer, pending, rd, connectP, consumed, wfc, uncaught >>
  /\ UNCHANGED << tracking, pcStart, pcLoop, startError, hasErrorListener, emitted, events, errorEvents,
                  callerStopped, stoppedIn, script >>
  /\ UNCHANGED deviceSetVars

SetRecv(S) ==
  /\ buffer' = S.buffer
  /\ pending' = S.pending
  /\ rd' = S.rd
  /\ consumed' = S.consumed

\* a free-standing caller calls readExactBytes(n)
ReaderCall(who, n) ==
  /\ ~ProcessExited
  /\ pcStart = "idle"
  /\ rd[who].st = "idle"
  /\ SetRecv(readExactBytes(RecvState, who, n))
  /\ UNCHANGED callerVars
  /\ UNCHANGED << wire, delivered, sock, streamErr, written, isConnected, connectP, wfc, uncaught >>
  /\ UNCHANGED << tracking, pcStart, pcLoop, startError, hasErrorListener, emitted, events, errorEvents,
                  callerStopped, stoppedIn, script >>
  /\ UNCHANGED deviceSetVars

\* the caller's await of readExactBytes resumes, with the bytes or the error
ReaderResume(who) ==
  /\ ~ProcessExited
  /\ who \in FreeReaders
  /\ Settled(rd[who])
  /\ rd' = [rd EXCEPT ![who] = Idle]
  /\ UNCHANGED callerVars
  /\ UNCHANGED << wire, delivered, sock, streamErr, written, buffer, isConnected, pending, connectP, consumed,
                  wfc, uncaught >>
  /\ UNCHANGED << tracking, pcStart, pcLoop, startError, hasErrorListener, emitted, events, errorEvents,
                  callerStopped, stoppedIn, script >>
  /\ UNCHANGED deviceSetVars

(***************************************************************************)
(* device-tracker.ts: DeviceSet.handleDeviceChange                         *)
(***************************************************************************)
\* (mutant) "apply changes" rewrites the array this.devices refers to instead
\* of assigning a new one
handleDeviceChange_inPlace(roster) ==
  LET cs == ComputeChangeset(devices, roster)
  IN /\ changeset' = cs
     /\ devices' = ApplyChangeset(devices, cs)
     /\ prevDevices' = devices
     /\ lastRoster' = roster
     /\ updated' = TRUE
     /\ held' = [i \in 1..Len(held) |->
                   IF held[i].current THEN [held[i] EXCEPT !.now = ApplyChangeset(devices, cs)]
                   ELSE held[i]]

\* handleDeviceChange(devices): the changeset, then this.devices = [...], a new
\* array: the arrays handed out before keep their content and are no longer
\* the one this.devices refers to
handleDeviceChange(roster) ==
  LET cs == ComputeChangeset(devices, roster)
  IN /\ changeset' = cs
     /\ devices' = ApplyChangeset(devices, cs)
     /\ prevDevices' = devices
     /\ lastRoster' = roster
     /\ updated' = TRUE
     /\ held' = [i \in 1..Len(held) |-> [held[i] EXCEPT !.current = FALSE]]

\* the listener called with a roster, outside any session
HandleDeviceChange ==
  /\ pcStart = "idle"
  /\ sock = "idle"
  /\ \E roster \in DiffRosters : handleDeviceChange(roster)
  /\ UNCHANGED callerVars
  /\ UNCHANGED << wire, delivered, sock, streamErr, written, buffer, isConnected, pending, rd, connectP,
                  consumed, wfc, uncaught >>
  /\ UNCHANGED << tracking, pcStart, pcLoop, startError, hasErrorListener, emitted, events, errorEvents,
                  callerStopped, stoppedIn, script >>

\* getDevices(): return this.devices, the array itself
GetDevices ==
  /\ Len(held) < MaxQueries
  /\ held' = Append(held, [returned |-> devices, now |-> devices, current |-> TRUE])
  /\ UNCHANGED << devices, changeset, prevDevices, lastRoster, updated >>
  /\ UNCHANGED callerVars
  /\ UNCHANGED << wire, delivered, sock, streamErr, written, buffer, isConnected, pending, rd, connectP,
                  consumed, wfc, uncaught >>
  /\ UNCHANGED << tracking, pcStart, pcLoop, startError, hasErrorListener, emitted, events, errorEvents,
                  callerStopped, stoppedIn, script >>

\* getConnectedDevices(): return this.devices.filter(...), a new array
GetConnectedDevices ==
  /\ connectedSeen' = [called |-> TRUE, devices |-> devices, result |-> getConnectedDevices(devices)]
  /\ UNCHANGED << startCalls, cmd, pcSend, sendError, deviceData, deviceInfos, templated, appVars >>
  /\ UNCHANGED deviceSetVars
  /\ UNCHANGED << wire, delivered, sock, streamErr, written, buffer, isConnected, pending, rd, connectP,
                  consumed, wfc, uncaught >>
  /\ UNCHANGED << tracking, pcStart, pcLoop, startError, hasErrorListener, emitted, events, errorEvents,
                  callerStopped, stoppedIn, script >>

\* the rosters the listener receives while callers read the device set
QueryRosters ==
  { << [id |-> IdA, status |-> "device"], [id |-> IdB, status |-> "offline"] >>,
    << [id |-> IdB, status |-> "unauthorized"], [id |-> IdA, status |-> "device"] >>,
    << [id |-> IdA, status |-> "device"], [id |-> IdB, status |-> "offline"],
       [id |-> IdC, status |-> "device"] >>,
    <<>> }

\* the listener called with a roster between the calls of the readers
RosterArrives ==
  /\ \E roster \in QueryRosters : handleDeviceChange(roster)
  /\ UNCHANGED callerVars
  /\ UNCHANGED << wire, delivered, sock, streamErr, written, buffer, isConnected, pending, rd, connectP,
                  consumed, wfc, uncaught >>
  /\ UNCHANGED << tracking, pcStart, pcLoop, startError, hasErrorListener, emitted, events, errorEvents,
                  callerStopped, stoppedIn, script >>

(***************************************************************************)
(* cmd-var.ts                                                              *)
(***************************************************************************)
VAR_KEY_DEVICE_ID == <<"d", "e", "v", "i", "c", "e", "i", "d">>

\* [a-zA-Z0-9_]
IsWordChar(c) ==
  \/ \E i \in 1..26 : LowerLetters[i] = c \/ UpperLetters[i] = c
  \/ c \in {"0", "1", "2", "3", "4", "5", "6", "7", "8", "9", "_"}

\* the longest run of word characters at the head of s
RECURSIVE WordRun(_)
WordRun(s) == IF s # <<>> /\ IsWordChar(Head(s)) THEN <<Head(s)>> \o WordRun(Tail(s)) ELSE <<>>

\* /@\{__([a-zA-Z0-9_]+)__\}/ matched at the head of s: the name captured, or
\* NoMatch.  The group is greedy and gives back characters until `__}`
\* follows: that is the run of word characters without its last two, which
\* have to be `__`, with `}` after the run.
NoMatch == <<"no match">>
MatchPlaceholder(s) ==
  IF Len(s) >= 4 /\ Take(s, 4) = <<"@", "{", "_", "_">>
  THEN LET run == WordRun(Drop(s, 4))
           n == Len(run)
       IN IF /\ n >= 3
             /\ run[n - 1] = "_"
             /\ run[n] = "_"
             /\ Len(s) >= 4 + n + 1
             /\ s[4 + n + 1] = "}"
          THEN Take(run, n - 2)
          ELSE NoMatch
  ELSE NoMatch

\* Object.prototype, which an object literal inherits from: the one property
\* the model gives it, and String() of its value
ConstructorName == <<"c", "o", "n", "s", "t", "r", "u", "c", "t", "o", "r">>
ObjectPrototype ==
  [name \in {ConstructorName} |->
     <<"f", "u", "n", "c", "t", "i", "o", "n", " ", "O", "b", "j", "e", "c", "t", "(", ")", " ", "{",
       " ", "[", "n", "a", "t", "i", "v", "e", " ", "c", "o", "d", "e", "]", " ", "}">>]

\* vars[varName] ?? `@{__${varName}__}`: an own property, else an inherited
\* one, else the placeholder again
Substitute(varName, templateVars) ==
  IF varName \in DOMAIN templateVars THEN templateVars[varName]
  ELSE IF varName \in DOMAIN ObjectPrototype THEN ObjectPrototype[varName]
  ELSE <<"@", "{", "_", "_">> \o varName \o <<"_", "_", "}">>

\* cmd.replace(regex with flag g, replacer): the matches from left to right,
\* each search starting after the previous match
RECURSIVE replaceTemplateVars(_, _)
replaceTemplateVars(command, templateVars) ==
  IF command = <<>> THEN <<>>
  ELSE LET varName == MatchPlaceholder(command)
       IN IF varName = NoMatch
          THEN <<Head(command)>> \o replaceTemplateVars(Tail(command), templateVars)
          ELSE Substitute(varName, templateVars)
                 \o replaceTemplateVars(Drop(command, 4 + Len(varName) + 3), templateVars)

\* no call of replaceTemplateVars yet
NoTemplateCall == [called |-> FALSE, cmd |-> <<>>, vars |-> <<>>, result |-> <<>>]

\* replaceTemplateVars(command, templateVars) called on its own
ReplaceTemplateVars(command, templateVars) ==
  /\ templated' = [called |-> TRUE, cmd |-> command, vars |-> templateVars,
                   result |-> replaceTemplateVars(command, templateVars)]
  /\ UNCHANGED << startCalls, cmd, pcSend, sendError, deviceData, deviceInfos, connectedSeen, appVars >>
  /\ UNCHANGED deviceSetVars
  /\ UNCHANGED << wire, delivered, sock, streamErr, written, buffer, isConnected, pending, rd, connectP,
                  consumed, wfc, uncaught >>
  /\ UNCHANGED << tracking, pcStart, pcLoop, startError, hasErrorListener, emitted, events, errorEvents,
                  callerStopped, stoppedIn, script >>


(***************************************************************************)
(* device-tracker.ts: DeviceTracker                                        *)
(***************************************************************************)
\* this.emit('devicesChanged', devices), DeviceSet subscribed
EmitDevicesChanged(roster) ==
  /\ emitted' = Append(emitted, roster)
  /\ events' = Append(events, "devicesChanged")
  /\ UNCHANGED errorEvents
  /\ handleDeviceChange(roster)

\* stop(): if (this.tracking) { this.tracking = false; this.socket.disconnect(); }
stop ==
  IF tracking
  THEN tracking' = FALSE /\ disconnect
  ELSE UNCHANGED << tracking, sock, isConnected >>

\* (mutant) the catch block rethrows without calling stop()
StartCatch_noStop(err) ==
  /\ UNCHANGED << tracking, sock, isConnected >>
  /\ events' = IF hasErrorListener THEN Append(events, "error") ELSE events
  /\ errorEvents' = IF hasErrorListener THEN Append(errorEvents, err) ELSE errorEvents
  /\ pcStart' = "rejected"
  /\ startError' = err

\* the catch block of start(): stop(); emit('error', error); throw error.
\* Without an 'error' listener emit throws the same error.
StartCatch(err) ==
  /\ stop
  /\ events' = IF hasErrorListener THEN Append(events, "error") ELSE events
  /\ errorEvents' = IF hasErrorListener THEN Append(errorEvents, err) ELSE errorEvents
  /\ pcStart' = "rejected"
  /\ startError' = err

\* the head of the while loop of readLoop, and the read it suspends on
LoopTop(S) ==
  IF isConnected /\ tracking
  THEN [S |-> readExactBytes(S, "loop", 4), pc |-> "awaitHeader"]
  ELSE [S |-> S, pc |-> "done"]

Consumed(who) == [RecvState EXCEPT !.rd = [rd EXCEPT ![who] = Idle]]

TaskStep == UncaughtSocketError \notin uncaught

\* (mutant) the switch has no FAIL case and FAIL falls through to success
sendCommandOutcome_failIsOk(command, response) ==
  IF response \in {OKAY, FAIL} THEN NoError
  ELSE Err("Unexpected response", response)

\* (mutant) the switch compares the token without regard to letter case
sendCommandOutcome_anyCase(command, response) ==
  IF toUpperCase(response) = OKAY THEN NoError
  ELSE IF toUpperCase(response) = FAIL THEN Err("ADB command failed", command)
  ELSE Err("Unexpected response", response)

\* the switch of sendCommand on the 4-byte response: returns (NoError) on
\* OKAY, throws one Error on FAIL and another on anything else
sendCommandOutcome(command, response) ==
  IF response = OKAY THEN NoError
  ELSE IF response = FAIL THEN Err("ADB command failed", command)
  ELSE Err("Unexpected response", response)

\* what sendCommand hands to socket.write, as the bytes that go on the wire:
\* command.length in hexadecimal, padded to 4 digits, then the command
CommandFrame(command) == padStart0(toString16(StringLength(command)), 4) \o encodeUtf8(command)

\* start() up to await this.socket.connect()
Start ==
  /\ ~ProcessExited
  /\ pcStart = "idle"
  /\ sock = "idle"
  /\ connectP = "none"
  /\ IF tracking
     THEN UNCHANGED << tracking, pcStart, connectP, sock >>
     ELSE /\ tracking' = TRUE
          /\ pcStart' = "awaitConnect"
          /\ connectP' = IF isConnected THEN "resolved" ELSE "pending"
          /\ sock' = IF isConnected THEN sock ELSE "connecting"
  /\ UNCHANGED callerVars
  /\ UNCHANGED << wire, delivered, streamErr, written, buffer, isConnected, pending, rd, consumed, wfc, uncaught >>
  /\ UNCHANGED << pcLoop, startError, hasErrorListener, emitted, events, errorEvents, callerStopped,
                  stoppedIn, script >>
  /\ UNCHANGED deviceSetVars

\* connect() settled: sendCommand writes the framed command and suspends on
\* readExactBytes(4); a rejected connect() goes to the catch block
StartConnected ==
  /\ TaskStep
  /\ pcStart = "awaitConnect"
  /\ connectP \in {"resolved", "rejected"}
  /\ connectP' = "done"
  /\ IF connectP = "resolved"
     THEN /\ written' = IF sock = "open"
                        THEN Append(written, CommandFrame(TRACK_DEVICES_COMMAND))
                        ELSE written
          /\ SetRecv(readExactBytes(RecvState, "start", 4))
          /\ pcStart' = "awaitStatus"
          /\ UNCHANGED << tracking, sock, isConnected, events, errorEvents, startError >>
     ELSE /\ StartCatch(streamErr)
          /\ UNCHANGED << written, buffer, pending, rd, consumed >>
  /\ UNCHANGED callerVars
  /\ UNCHANGED << wire, delivered, streamErr, wfc, uncaught, pcLoop, hasErrorListener, emitted,
                  callerStopped, stoppedIn, script >>
  /\ UNCHANGED deviceSetVars

\* the status token arrived: the switch of sendCommand, then readDeviceData
\* suspends on the header of the initial roster
StartGotStatus ==
  /\ TaskStep
  /\ pcStart = "awaitStatus"
  /\ Settled(rd["start"])
  /\ IF rd["start"].st = "resolved"
        /\ sendCommandOutcome(TRACK_DEVICES_COMMAND, rd["start"].val) = NoError
     THEN /\ SetRecv(readExactBytes(Consumed("start"), "start", 4))
          /\ pcStart' = "awaitHeader"
          /\ UNCHANGED << tracking, sock, isConnected, events, errorEvents, startError >>
     ELSE /\ StartCatch(IF rd["start"].st = "rejected" THEN rd["start"].err
                        ELSE sendCommandOutcome(TRACK_DEVICES_COMMAND, rd["start"].val))
          /\ SetRecv(Consumed("start"))
  /\ UNCHANGED callerVars
  /\ UNCHANGED << wire, delivered, streamErr, written, connectP, wfc, uncaught, pcLoop, hasErrorListener,
                  emitted, callerStopped, stoppedIn, script >>
  /\ UNCHANGED deviceSetVars

\* the rest of start() once the initial payload is known: emit the initial
\* roster, run readLoop() up to its first await, call waitForClose(), return
StartEmitInitial(data) ==
  LET L == LoopTop(Consumed("start"))
  IN /\ EmitDevicesChanged(parseDeviceData(data))
     /\ SetRecv(L.S)
     /\ pcLoop' = L.pc
     /\ wfc' = waitForClose(isConnected)
     /\ pcStart' = "resolved"
     /\ UNCHANGED << tracking, sock, isConnected, startError >>

\* the header of the initial roster arrived
StartGotHeader ==
  /\ TaskStep
  /\ pcStart = "awaitHeader"
  /\ Settled(rd["start"])
  /\ IF rd["start"].st = "rejected"
     THEN /\ StartCatch(rd["start"].err)
          /\ SetRecv(Consumed("start"))
          /\ UNCHANGED << pcLoop, wfc, emitted >>
          /\ UNCHANGED deviceSetVars
     ELSE LET dataLength == parseInt16(rd["start"].val)
          IN IF dataLength > 0
             THEN /\ SetRecv(readExactBytes(Consumed("start"), "start", dataLength))
                  /\ pcStart' = "awaitPayload"
                  /\ UNCHANGED << tracking, sock, isConnected, events, errorEvents, startError, pcLoop, wfc,
                                  emitted >>
                  /\ UNCHANGED deviceSetVars
             ELSE StartEmitInitial(<<>>)
  /\ UNCHANGED callerVars
  /\ UNCHANGED << wire, delivered, streamErr, written, connectP, uncaught, hasErrorListener,
                  callerStopped, stoppedIn, script >>

\* the payload of the initial roster arrived
StartGotPayload ==
  /\ TaskStep
  /\ pcStart = "awaitPayload"
  /\ Settled(rd["start"])
  /\ IF rd["start"].st = "rejected"
     THEN /\ StartCatch(rd["start"].err)
          /\ SetRecv(Consumed("start"))
          /\ UNCHANGED << pcLoop, wfc, emitted >>
          /\ UNCHANGED deviceSetVars
     ELSE StartEmitInitial(rd["start"].val)
  /\ UNCHANGED callerVars
  /\ UNCHANGED << wire, delivered, streamErr, written, connectP, uncaught, hasErrorListener,
                  callerStopped, stoppedIn, script >>

\* readLoop with a whole frame: emit it, test the loop condition, read on
LoopEmit(data) ==
  LET L == LoopTop(Consumed("loop"))
  IN /\ EmitDevicesChanged(parseDeviceData(data))
     /\ SetRecv(L.S)
     /\ pcLoop' = L.pc

\* readLoop: the header of a frame arrived
LoopGotHeader ==
  /\ TaskStep
  /\ pcLoop = "awaitHeader"
  /\ rd["loop"].st = "resolved"
  /\ LET dataLength == parseInt16(rd["loop"].val)
     IN IF dataLength > 0
        THEN /\ SetRecv(readExactBytes(Consumed("loop"), "loop", dataLength))
             /\ pcLoop' = "awaitPayload"
             /\ UNCHANGED << emitted, events, errorEvents >>
             /\ UNCHANGED deviceSetVars
        ELSE LoopEmit(<<>>)
  /\ UNCHANGED callerVars
  /\ UNCHANGED << wire, delivered, sock, streamErr, written, isConnected, connectP, wfc, uncaught, tracking,
                  pcStart, startError, hasErrorListener, callerStopped, stoppedIn, script >>

\* readLoop: the payload of a frame arrived
LoopGotPayload ==
  /\ TaskStep
  /\ pcLoop = "awaitPayload"
  /\ rd["loop"].st = "resolved"
  /\ LoopEmit(rd["loop"].val)
  /\ UNCHANGED callerVars
  /\ UNCHANGED << wire, delivered, sock, streamErr, written, isConnected, connectP, wfc, uncaught, tracking,
                  pcStart, startError, hasErrorListener, callerStopped, stoppedIn, script >>

\* readLoop: the read it was suspended on failed; the catch block emits
\* 'error' and calls stop().  Without an 'error' listener emit throws inside
\* the catch block: stop() is not reached and the promise of readLoop(),
\* which nobody holds, is rejected.
LoopReadRejected ==
  /\ TaskStep
  /\ pcLoop \in {"awaitHeader", "awaitPayload"}
  /\ rd["loop"].st = "rejected"
  /\ rd' = [rd EXCEPT !["loop"] = Idle]
  /\ IF hasErrorListener
     THEN /\ events' = Append(events, "error")
          /\ errorEvents' = Append(errorEvents, rd["loop"].err)
          /\ stop
          /\ pcLoop' = "done"
          /\ UNCHANGED uncaught
     ELSE /\ pcLoop' = "rejected"
          /\ uncaught' = uncaught \cup {UnhandledReadLoop}
          /\ UNCHANGED << events, errorEvents, tracking, sock, isConnected >>
  /\ UNCHANGED callerVars
  /\ UNCHANGED << wire, delivered, streamErr, written, buffer, pending, connectP, consumed, wfc, pcStart,
                  startError, hasErrorListener, emitted, callerStopped, stoppedIn, script >>
  /\ UNCHANGED deviceSetVars

\* (mutant) the close continuation also empties the device set
WaitForCloseThen_clearsDevices ==
  /\ TaskStep
  /\ wfc = "resolved"
  /\ wfc' = "done"
  /\ tracking' = FALSE
  /\ events' = Append(events, "close")
  /\ devices' = <<>>
  /\ UNCHANGED << changeset, prevDevices, lastRoster, updated, held, errorEvents >>
  /\ UNCHANGED callerVars
  /\ UNCHANGED << wire, delivered, sock, streamErr, written, buffer, isConnected, pending, rd, connectP,
                  consumed, uncaught, pcStart, pcLoop, startError, hasErrorListener, emitted,
                  callerStopped, stoppedIn, script >>

\* waitForClose() resolved: this.tracking = false; this.emit('close')
WaitForCloseThen ==
  /\ TaskStep
  /\ wfc = "resolved"
  /\ wfc' = "done"
  /\ tracking' = FALSE
  /\ events' = Append(events, "close")
  /\ UNCHANGED errorEvents
  /\ UNCHANGED callerVars
  /\ UNCHANGED << wire, delivered, sock, streamErr, written, buffer, isConnected, pending, rd, connectP,
                  consumed, uncaught, pcStart, pcLoop, startError, hasErrorListener, emitted,
                  callerStopped, stoppedIn, script >>
  /\ UNCHANGED deviceSetVars

\* waitForClose() rejected: then() was given no rejection handler, the
\* promise it returned is rejected and nobody holds it
WaitForCloseRejected ==
  /\ TaskStep
  /\ wfc = "rejected"
  /\ wfc' = "unhandled"
  /\ uncaught' = uncaught \cup {UnhandledWaitForClose}
  /\ UNCHANGED callerVars
  /\ UNCHANGED << wire, delivered, sock, streamErr, written, buffer, isConnected, pending, rd, connectP,
                  consumed, tracking, pcStart, pcLoop, startError, hasErrorListener, emitted,
                  events, errorEvents, callerStopped, stoppedIn, script >>
  /\ UNCHANGED deviceSetVars

\* the caller calls stop() on a session it has started
Stop ==
  /\ ~ProcessExited
  /\ pcStart # "idle"
  /\ ~callerStopped
  /\ callerStopped' = TRUE
  /\ stoppedIn' = pcStart
  /\ stop
  /\ UNCHANGED callerVars
  /\ UNCHANGED << wire, delivered, streamErr, written, buffer, pending, rd, connectP, consumed, wfc, uncaught,
                  pcStart, pcLoop, startError, hasErrorListener, emitted, events, errorEvents, script >>
  /\ UNCHANGED deviceSetVars

\* (mutant) a later start() runs again although the session is tracking
StartAgain_ignoresFlag ==
  /\ ~ProcessExited
  /\ pcStart \in {"resolved", "rejected"}
  /\ Len(startCalls) < MaxStartCalls
  /\ startCalls' = Append(startCalls, [returnedAtOnce |-> FALSE, emitted |-> Len(emitted)])
  /\ tracking' = TRUE
  /\ pcStart' = "awaitConnect"
  /\ connectP' = IF isConnected THEN "resolved" ELSE "pending"
  /\ sock' = IF isConnected THEN sock ELSE "connecting"
  /\ UNCHANGED << wire, script, written, streamErr >>
  /\ UNCHANGED << cmd, pcSend, sendError, deviceData, deviceInfos, clientVars >>
  /\ UNCHANGED << delivered, buffer, isConnected, pending, rd, consumed, wfc, uncaught >>
  /\ UNCHANGED << pcLoop, startError, hasErrorListener, emitted, events, errorEvents, callerStopped,
                  stoppedIn >>
  /\ UNCHANGED deviceSetVars

\* the roster the daemon reports on a second connection
ReuseRoster == << [id |-> IdB, status |-> "device"] >>

\* A later call of start() on the same DeviceTracker.  While this.tracking is
\* set it logs a warning and returns.  Otherwise it runs as the first call
\* did, on the same AdbSocket and net.Socket: connect() calls socket.connect()
\* again, which reconnects a socket whose 'close' has been emitted; the daemon
\* answers the new connection with OKAY and one roster.  (The second branch is
\* taken here only when the earlier call has settled, the socket has closed
\* and no read loop of the earlier run is still suspended.)
StartAgain ==
  /\ ~ProcessExited
  /\ pcStart # "idle"
  /\ Len(startCalls) < MaxStartCalls
  /\ IF tracking
     THEN /\ startCalls' = Append(startCalls, [returnedAtOnce |-> TRUE, emitted |-> Len(emitted)])
          /\ UNCHANGED << tracking, pcStart, connectP, sock, wire, script, written, streamErr >>
     ELSE /\ pcStart \in {"resolved", "rejected"}
          /\ sock = "closed"
          /\ pcLoop \in {"idle", "done"}
          /\ wfc \in {"none", "done"}
          /\ startCalls' = Append(startCalls, [returnedAtOnce |-> FALSE, emitted |-> Len(emitted)])
          /\ tracking' = TRUE
          /\ pcStart' = "awaitConnect"
          /\ connectP' = IF isConnected THEN "resolved" ELSE "pending"
          /\ sock' = IF isConnected THEN sock ELSE "connecting"
          /\ wire' = Take(wire, delivered) \o OKAY \o RosterFrames(<<ReuseRoster>>)
          /\ script' = Append(script, ReuseRoster)
          /\ written' = <<>>
          /\ streamErr' = NoError
  /\ UNCHANGED << cmd, pcSend, sendError, deviceData, deviceInfos, clientVars >>
  /\ UNCHANGED << delivered, buffer, isConnected, pending, rd, consumed, wfc, uncaught >>
  /\ UNCHANGED << pcLoop, startError, hasErrorListener, emitted, events, errorEvents, callerStopped,
                  stoppedIn >>
  /\ UNCHANGED deviceSetVars

(***************************************************************************)
(* device-tracker.ts: parseDeviceData called on its own                    *)
(***************************************************************************)
\* parseDeviceData(data)
ParseDeviceData(data) ==
  /\ deviceData' = data
  /\ deviceInfos' = parseDeviceData(data)
  /\ UNCHANGED << startCalls, cmd, pcSend, sendError, clientVars >>
  /\ UNCHANGED << wire, delivered, sock, streamErr, written, buffer, isConnected, pending, rd, connectP,
                  consumed, wfc, uncaught >>
  /\ UNCHANGED << tracking, pcStart, pcLoop, startError, hasErrorListener, emitted, events, errorEvents,
                  callerStopped, stoppedIn, script >>
  /\ UNCHANGED deviceSetVars

(***************************************************************************)
(* adb-socket.ts: sendCommand called on its own                            *)
(***************************************************************************)
\* the largest length four hexadecimal digits can express
MaxFrameLength == 16 ^ 4 - 1

\* a command one byte too long for the length prefix
LongCommand == <<>> \o [i \in 1..(MaxFrameLength + 1) |-> "a"]

\* the command texts given to sendCommand
Commands ==
  { <<>>, <<"a">>, TRACK_DEVICES_COMMAND, <<"U+00E9">>, <<"a", "U+20AC">>, <<"U+1F600">>,
    LongCommand }

\* (mutant) sendCommand reads the status token and the 4 bytes after it
SendCommand_readsEight ==
  /\ ~ProcessExited
  /\ pcSend = "idle"
  /\ sock = "open"
  /\ \E command \in Commands :
       /\ cmd' = command
       /\ written' = Append(written, CommandFrame(command))
  /\ SetRecv(readExactBytes(RecvState, "cmd", 8))
  /\ pcSend' = "awaitStatus"
  /\ UNCHANGED << startCalls, sendError, deviceData, deviceInfos, clientVars >>
  /\ UNCHANGED << wire, delivered, sock, streamErr, isConnected, connectP, wfc, uncaught >>
  /\ UNCHANGED << tracking, pcStart, pcLoop, startError, hasErrorListener, emitted, events, errorEvents,
                  callerStopped, stoppedIn, script >>
  /\ UNCHANGED deviceSetVars

\* sendCommand(command) on a connected transport, up to await
\* readExactBytes(4)
SendCommand ==
  /\ ~ProcessExited
  /\ pcSend = "idle"
  /\ sock = "open"
  /\ \E command \in Commands :
       /\ cmd' = command
       /\ written' = Append(written, CommandFrame(command))
  /\ SetRecv(readExactBytes(RecvState, "cmd", 4))
  /\ pcSend' = "awaitStatus"
  /\ UNCHANGED << startCalls, sendError, deviceData, deviceInfos, clientVars >>
  /\ UNCHANGED << wire, delivered, sock, streamErr, isConnected, connectP, wfc, uncaught >>
  /\ UNCHANGED << tracking, pcStart, pcLoop, startError, hasErrorListener, emitted, events, errorEvents,
                  callerStopped, stoppedIn, script >>
  /\ UNCHANGED deviceSetVars

\* the read of the status token settled: the switch, or the rejection of the
\* read passed on
SendGotStatus ==
  /\ TaskStep
  /\ pcSend = "awaitStatus"
  /\ Settled(rd["cmd"])
  /\ LET err == IF rd["cmd"].st = "rejected" THEN rd["cmd"].err
                ELSE sendCommandOutcome(cmd, rd["cmd"].val)
     IN /\ pcSend' = IF err = NoError THEN "returned" ELSE "threw"
        /\ sendError' = err
  /\ SetRecv(Consumed("cmd"))
  /\ UNCHANGED << startCalls, cmd, deviceData, deviceInfos, clientVars >>
  /\ UNCHANGED << wire, delivered, sock, streamErr, written, isConnected, connectP, wfc, uncaught >>
  /\ UNCHANGED << tracking, pcStart, pcLoop, startError, hasErrorListener, emitted, events, errorEvents,
                  callerStopped, stoppedIn, script >>
  /\ UNCHANGED deviceSetVars

(***************************************************************************)
(* Specifications                                                          *)
(***************************************************************************)
InitCommon ==
  /\ delivered = 0
  /\ sock = "idle"
  /\ written = <<>>
  /\ buffer = <<>>
  /\ isConnected = FALSE
  /\ pending = <<>>
  /\ rd = [who \in Readers |-> Idle]
  /\ connectP = "none"
  /\ wfc = "none"
  /\ tracking = FALSE
  /\ pcStart = "idle"
  /\ pcLoop = "idle"
  /\ startError = NoError
  /\ streamErr = NoError
  /\ devices = <<>>
  /\ changeset = EmptyChangeset
  /\ uncaught = {}
  /\ consumed = 0
  /\ emitted = <<>>
  /\ events = <<>>
  /\ prevDevices = <<>>
  /\ lastRoster = <<>>
  /\ updated = FALSE
  /\ held = <<>>
  /\ connectedSeen = NotCalled
  /\ templated = NoTemplateCall
  /\ listenerRuns = <<>>
  /\ cleanupCalled = FALSE
  /\ cleanup = [st |-> "none", cmds |-> <<>>, idx |-> 0, log |-> <<>>]
  /\ laterSigint = FALSE
  /\ exited = "no"
  /\ callerStopped = FALSE
  /\ stoppedIn = "none"
  /\ errorEvents = <<>>
  /\ startCalls = <<>>
  /\ pcSend = "idle"
  /\ sendError = NoError
  /\ deviceInfos = <<>>

\* the tracking session: a DeviceTracker with a subscribed DeviceSet, and a
\* daemon that answers the handshake and then reports `script`
Init ==
  /\ InitCommon
  /\ commands = <<>>
  /\ cleanupCommands = <<>>
  /\ hasErrorListener \in BOOLEAN
  /\ cmd = <<>>
  /\ deviceData = <<>>
  /\ \E answer \in HandshakeAnswers :
       /\ script \in (IF answer = OKAY THEN SeqsUpTo(ScriptRosters, MaxFrames) ELSE {<<>>})
       /\ wire = answer \o RosterFrames(script)

ChunkSizes == (1..MaxChunk) \cup {Len(wire) - delivered}

\* the daemon answers only once it has the request
DaemonSends == written # <<>> /\ \E k \in ChunkSizes : OnSocketData(k)

StreamError ==
  OnSocketError(SocketError(IF sock = "connecting" THEN "ECONNREFUSED" ELSE "ECONNRESET"))

Next ==
  \/ Start
  \/ OnSocketConnect
  \/ DaemonSends
  \/ PeerEnds
  \/ StreamError
  \/ OnSocketClose
  \/ StartConnected
  \/ StartGotStatus
  \/ StartGotHeader
  \/ StartGotPayload
  \/ LoopGotHeader
  \/ LoopGotPayload
  \/ LoopReadRejected
  \/ WaitForCloseThen
  \/ WaitForCloseRejected
  \/ Stop

Spec == Init /\ [][Next]_vars

\* the tracking session with a caller that calls start() again; the daemon
\* answers the first connection with FAIL, or with OKAY, one roster and
\* possibly a second one
InitReuse ==
  /\ InitCommon
  /\ commands = <<>>
  /\ cleanupCommands = <<>>
  /\ hasErrorListener \in BOOLEAN
  /\ cmd = <<>>
  /\ deviceData = <<>>
  /\ \E answer \in {OKAY, FAIL} :
       /\ script \in (IF answer = OKAY
                       THEN { << << [id |-> IdA, status |-> "device"] >> >>,
                              << << [id |-> IdA, status |-> "device"] >>,
                                 << [id |-> IdA, status |-> "offline"] >> >> }
                       ELSE {<<>>})
       /\ wire = answer \o RosterFrames(script)

NextReuse ==
  \/ Next
  \/ StartAgain

SpecReuse == InitReuse /\ [][NextReuse]_vars

\* the transport alone: an AdbSocket, a peer that sends `wire`, and callers
\* of connect(), readExactBytes(n) and disconnect()
InitSocket ==
  /\ InitCommon
  /\ commands = <<>>
  /\ cleanupCommands = <<>>
  /\ hasErrorListener = FALSE
  /\ script = <<>>
  /\ cmd = <<>>
  /\ deviceData = <<>>
  /\ wire \in SocketWires

PeerSends == \E k \in 1..(Len(wire) - delivered) : OnSocketData(k)

NextSocket ==
  \/ CallConnect
  \/ OnSocketConnect
  \/ PeerSends
  \/ PeerEnds
  \/ StreamError
  \/ OnSocketClose
  \/ CallDisconnect
  \/ \E who \in FreeReaders, n \in 1..MaxRead : ReaderCall(who, n)
  \/ \E who \in FreeReaders : ReaderResume(who)

SpecSocket == InitSocket /\ [][NextSocket]_vars

\* the diff engine alone: a DeviceSet whose listener is called with rosters
InitDiff ==
  /\ InitCommon
  /\ commands = <<>>
  /\ cleanupCommands = <<>>
  /\ hasErrorListener = FALSE
  /\ script = <<>>
  /\ cmd = <<>>
  /\ deviceData = <<>>
  /\ wire = <<>>

NextDiff == HandleDeviceChange

SpecDiff == InitDiff /\ [][NextDiff]_vars

\* the status names of the protocol, in lower case, each with the member of
\* DeviceStatus it names
StatusNames ==
  { << <<"o", "f", "f", "l", "i", "n", "e">>, "offline" >>,
    << <<"d", "e", "v", "i", "c", "e">>, "device" >>,
    << <<"u", "n", "a", "u", "t", "h", "o", "r", "i", "z", "e", "d">>, "unauthorized" >>,
    << <<"a", "u", "t", "h", "o", "r", "i", "z", "i", "n", "g">>, "authorizing" >>,
    << <<"n", "o", "-", "p", "e", "r", "m", "i", "s", "s", "i", "o", "n", "s">>, "no permissions" >>,
    << <<"b", "o", "o", "t", "l", "o", "a", "d", "e", "r">>, "bootloader" >>,
    << <<"r", "e", "c", "o", "v", "e", "r", "y">>, "recovery" >>,
    << <<"u", "n", "k", "n", "o", "w", "n">>, "unknown" >> }

\* a word with its first letter in upper case
Capitalized(s) == [i \in 1..Len(s) |-> IF i = 1 THEN UpperChar(s[i]) ELSE s[i]]

\* status tokens: every status name in lower case, in upper case and
\* capitalized, the member name NO_PERMISSIONS in both cases, and a token that
\* names no status
StatusTokens ==
  {m[1] : m \in StatusNames} \cup {toUpperCase(m[1]) : m \in StatusNames}
    \cup {Capitalized(m[1]) : m \in StatusNames}
    \cup { <<"n", "o", "_", "p", "e", "r", "m", "i", "s", "s", "i", "o", "n", "s">>,
           <<"N", "O", "_", "P", "E", "R", "M", "I", "S", "S", "I", "O", "N", "S">>,
           <<"h", "o", "s", "t">> }

\* roster lines: well formed (TAB or blanks between the columns, blanks and
\* a CR around them), blank, of one token, of three tokens
CodecLines ==
  { <<>>,
    <<" ", "\t">>,
    <<"a">>,
    <<"a", "\t", "d", "e", "v", "i", "c", "e">>,
    <<" ", "b", " ", " ", "o", "f", "f", "l", "i", "n", "e", "\r">>,
    <<"c", " ", "h", "o", "s", "t">>,
    <<"a", " ", "d", "e", "v", "i", "c", "e", " ", "x">> }

\* lines joined by LF, with an LF after the last one
RECURSIVE JoinLines(_)
JoinLines(lines) == IF lines = <<>> THEN <<>> ELSE Head(lines) \o <<"\n">> \o JoinLines(Tail(lines))

\* the payloads handed to parseDeviceData: up to MaxLines lines, with and
\* without the final LF, and one line per status token
Payloads ==
  {JoinLines(ls) : ls \in SeqsUpTo(CodecLines, MaxLines)}
    \cup {Take(JoinLines(ls), Len(JoinLines(ls)) - 1) : ls \in SeqsUpTo(CodecLines, MaxLines) \ {<<>>}}
    \cup {IdA \o <<"\t">> \o tok \o <<"\n">> : tok \in StatusTokens}

\* the roster codec alone
InitCodec ==
  /\ InitCommon
  /\ commands = <<>>
  /\ cleanupCommands = <<>>
  /\ hasErrorListener = FALSE
  /\ script = <<>>
  /\ cmd = <<>>
  /\ wire = <<>>
  /\ deviceData = <<>>

NextCodec == \E data \in Payloads : ParseDeviceData(data)

SpecCodec == InitCodec /\ [][NextCodec]_vars

\* what the peer answers to a command: a status token, alone or followed by
\* more bytes, or four bytes that are no status token
CommandResponses ==
  { OKAY, FAIL, OKAY \o <<"0", "0", "0", "0">>, FAIL \o EncodeFrame(<<"n", "o">>),
    <<"O", "K", "O", "K">>, <<"f", "a", "i", "l">> }

\* the transport with a caller of connect() and then of sendCommand
InitCommand ==
  /\ InitCommon
  /\ commands = <<>>
  /\ cleanupCommands = <<>>
  /\ hasErrorListener = FALSE
  /\ script = <<>>
  /\ deviceData = <<>>
  /\ cmd = <<>>
  /\ wire \in CommandResponses

NextCommand ==
  \/ CallConnect
  \/ OnSocketConnect
  \/ SendCommand
  \/ DaemonSends
  \/ SendGotStatus
  \/ PeerEnds
  \/ StreamError
  \/ OnSocketClose

SpecCommand == InitCommand /\ [][NextCommand]_vars

\* the diff engine with callers of getDevices() and getConnectedDevices()
InitQuery ==
  /\ InitCommon
  /\ commands = <<>>
  /\ cleanupCommands = <<>>
  /\ hasErrorListener = FALSE
  /\ script = <<>>
  /\ cmd = <<>>
  /\ deviceData = <<>>
  /\ wire = <<>>

NextQuery ==
  \/ RosterArrives
  \/ GetDevices
  \/ GetConnectedDevices

SpecQuery == InitQuery /\ [][NextQuery]_vars

\* the pieces of the command texts: the placeholder as the README writes it
\* and as the tests write it, for the key deviceid and for other names, and
\* plain text
TemplatePieces ==
  { <<"@", "{">> \o VAR_KEY_DEVICE_ID \o <<"}">>,
    <<"@", "{", "_", "_">> \o VAR_KEY_DEVICE_ID \o <<"_", "_", "}">>,
    <<"@", "{", "u", "}">>,
    <<"@", "{", "_", "_", "u", "_", "_", "}">>,
    <<"@", "{", "_", "_">> \o ConstructorName \o <<"_", "_", "}">>,
    <<"@", "{", "_", "_">>,
    <<"x", " ">> }

\* the command texts handed to replaceTemplateVars
TemplateCommands == {Flatten(pieces) : pieces \in SeqsUpTo(TemplatePieces, MaxPieces)}

\* the variable tables handed to it
TemplateVarTables ==
  { [name \in {VAR_KEY_DEVICE_ID} |-> IdA],
    [name \in {VAR_KEY_DEVICE_ID} |-> <<>>],
    [name \in {VAR_KEY_DEVICE_ID, <<"u">>} |-> IF name = <<"u">> THEN IdB ELSE IdA] }

InitTemplate ==
  /\ InitCommon
  /\ commands = <<>>
  /\ cleanupCommands = <<>>
  /\ hasErrorListener = FALSE
  /\ script = <<>>
  /\ cmd = <<>>
  /\ deviceData = <<>>
  /\ wire = <<>>

\* one call in a behaviour
NextTemplate ==
  /\ ~templated.called
  /\ \E command \in TemplateCommands, templateVars \in TemplateVarTables :
       ReplaceTemplateVars(command, templateVars)

SpecTemplate == InitTemplate /\ [][NextTemplate]_vars

\* the next read on the transport once sendCommand has settled
ReadAfterCommand ==
  /\ pcSend \in {"returned", "threw"}
  /\ \E n \in 1..MaxRead : ReaderCall("r1", n)

\* sendCommand followed by another read on the same transport
NextCommandThenRead ==
  \/ NextCommand
  \/ ReadAfterCommand

SpecCommandThenRead == InitCommand /\ [][NextCommandThenRead]_vars

\* 4 bytes in the place of a frame's length that are no hexadecimal number,
\* or not to their end
BadHeaders == { <<"z", "z", "z", "z">>, <<"0", "0", "z", "z">> }

\* the tracking session with a daemon that sends, after OKAY and one or two
\* rosters with devices, a frame whose header is no hexadecimal length
InitBadFrame ==
  /\ InitCommon
  /\ commands = <<>>
  /\ cleanupCommands = <<>>
  /\ hasErrorListener \in BOOLEAN
  /\ cmd = <<>>
  /\ deviceData = <<>>
  /\ script \in { << << [id |-> IdA, status |-> "device"] >> >>,
                  << << [id |-> IdA, status |-> "device"] >>,
                     << [id |-> IdA, status |-> "device"], [id |-> IdB, status |-> "device"] >> >> }
  /\ \E header \in BadHeaders : wire = OKAY \o RosterFrames(script) \o header

SpecBadFrame == InitBadFrame /\ [][Next]_vars

(***************************************************************************)
(* index.ts: runApp                                                        *)
(*                                                                         *)
(* execa(cmd, { shell: true }) starts a child process at the call; its     *)
(* promise settles when the child has ended: resolved on exit code 0,      *)
(* rejected otherwise.  The continuations that follow the end of a child   *)
(* (the rest of the batch, of the listener, of the SIGINT handler) run as  *)
(* microtasks before any other event, so they belong to the same action.   *)
(* Each batch keeps the list of the execa calls it has made.               *)
(***************************************************************************)
\* cmds.map(cmd => cmd.trim()).filter(cmd => !!cmd)
TrimmedCommands(cmds) == SelectSeq([i \in 1..Len(cmds) |-> trim(cmds[i])], LAMBDA c : c # <<>>)

\* processCommandForDevice(cmd, device)
processCommandForDevice(command, device) ==
  replaceTemplateVars(command, [name \in {VAR_KEY_DEVICE_ID} |-> device.id])

\* new RegExp(`@\\{__${varName}__\\}`).test(cmd)
detectCommandHasVar(command, varName) ==
  LET pattern == <<"@", "{", "_", "_">> \o varName \o <<"_", "_", "}">>
  IN \E i \in 1..Len(command) :
       /\ i + Len(pattern) - 1 <= Len(command)
       /\ SubSeq(command, i, i + Len(pattern) - 1) = pattern

\* finalCommands of executeCommandsForDevice(device, cmds)
FinalCommands(device, cmds) ==
  LET t == TrimmedCommands(cmds)
  IN [i \in 1..Len(t) |-> processCommandForDevice(t[i], device)]

\* newCleanupCommands of executeCleanupCommands: a command with the deviceid
\* variable once per connected device, any other command once
CleanupCommandList ==
  LET t == TrimmedCommands(cleanupCommands)
      now == getConnectedDevices(devices)
  IN Flatten([i \in 1..Len(t) |->
                IF detectCommandHasVar(t[i], VAR_KEY_DEVICE_ID)
                THEN [j \in 1..Len(now) |-> processCommandForDevice(t[i], now[j])]
                ELSE <<t[i]>>])

\* for (const device of devices): the next entry after position `from` whose
\* status is device, 0 if there is none
NextConnected(roster, from) ==
  IF \E i \in (from + 1)..Len(roster) : roster[i].status = "device"
  THEN CHOOSE i \in (from + 1)..Len(roster) :
         /\ roster[i].status = "device"
         /\ \A j \in (from + 1)..(i - 1) : roster[j].status # "device"
  ELSE 0

\* execa(cmd, { shell: true }): the call a batch records
Spawn(device, text) == [device |-> device, text |-> text, st |-> "running"]

\* the child of the last execa call ended: resolved or rejected
Settle(log, ok) == [log EXCEPT ![Len(log)].st = IF ok THEN "ok" ELSE "failed"]

\* (mutant) a command that failed ends the listener, not only its batch
ListenerFrom_failureEndsListener(roster, from, log) ==
  LET i == IF log # <<>> /\ log[Len(log)].st = "failed" THEN 0 ELSE NextConnected(roster, from)
      batch == IF i = 0 THEN <<>> ELSE FinalCommands(roster[i], commands)
  IN IF batch = <<>>
     THEN [st |-> "done", dev |-> 0, cmds |-> <<>>, idx |-> 0, log |-> log]
     ELSE [st |-> "awaitExeca", dev |-> i, cmds |-> batch, idx |-> 1,
           log |-> Append(log, Spawn(roster[i].id, batch[1]))]

\* the devicesChanged listener from the entry after position `from` of its
\* roster on: it runs the batch of the next connected device up to the first
\* execa, or it returns
ListenerFrom(roster, from, log) ==
  LET i == NextConnected(roster, from)
      batch == IF i = 0 THEN <<>> ELSE FinalCommands(roster[i], commands)
  IN IF batch = <<>>
     THEN [st |-> "done", dev |-> 0, cmds |-> <<>>, idx |-> 0, log |-> log]
     ELSE [st |-> "awaitExeca", dev |-> i, cmds |-> batch, idx |-> 1,
           log |-> Append(log, Spawn(roster[i].id, batch[1]))]

\* the untouched part of the library while the app's own handlers run
AppLeavesLibrary ==
  /\ UNCHANGED << startCalls, cmd, pcSend, sendError, deviceData, deviceInfos, connectedSeen, templated >>
  /\ UNCHANGED << wire, delivered, sock, streamErr, written, buffer, isConnected, pending, rd, connectP,
                  consumed, wfc, uncaught >>
  /\ UNCHANGED << tracking, pcStart, pcLoop, startError, hasErrorListener, errorEvents,
                  callerStopped, stoppedIn, script >>

\* tracker.emit('devicesChanged', roster): the app's listener, registered
\* first, runs up to its first await; then DeviceSet.handleDeviceChange
TrackerEmits(roster) ==
  /\ exited = "no"
  /\ Len(emitted) < MaxRosters
  /\ listenerRuns' = Append(listenerRuns, ListenerFrom(roster, 0, <<>>))
  /\ EmitDevicesChanged(roster)
  /\ UNCHANGED << commands, cleanupCommands, cleanupCalled, cleanup, laterSigint, exited >>
  /\ AppLeavesLibrary

\* (mutant) a batch goes on after a command that failed
BatchGoesOn_pastFailure(b, ok) == b.idx < Len(b.cmds)

\* the command at position idx of a batch ended: the next command of the
\* batch if it succeeded and there is one, otherwise the batch is over
BatchGoesOn(b, ok) == ok /\ b.idx < Len(b.cmds)

\* the child started by the listener of event k ended, with exit code 0 or not
ListenerChildExits(k, ok) ==
  /\ exited = "no"
  /\ k \in 1..Len(listenerRuns)
  /\ listenerRuns[k].st = "awaitExeca"
  /\ LET l == listenerRuns[k]
         ended == Settle(l.log, ok)
     IN IF BatchGoesOn(l, ok)
        THEN listenerRuns' = [listenerRuns EXCEPT ![k].idx = l.idx + 1,
                                                  ![k].log = Append(ended, Spawn(emitted[k][l.dev].id, l.cmds[l.idx + 1]))]
        ELSE listenerRuns' = [listenerRuns EXCEPT ![k] = ListenerFrom(emitted[k], l.dev, ended)]
  /\ UNCHANGED << commands, cleanupCommands, cleanupCalled, cleanup, laterSigint, exited >>
  /\ UNCHANGED << emitted, events >>
  /\ UNCHANGED deviceSetVars
  /\ AppLeavesLibrary

\* the child started by the cleanup ended; after the batch the SIGINT handler
\* calls process.exit(0)
CleanupChildExits(ok) ==
  /\ exited = "no"
  /\ cleanup.st = "awaitExeca"
  /\ LET ended == Settle(cleanup.log, ok)
     IN IF BatchGoesOn(cleanup, ok)
        THEN /\ cleanup' = [cleanup EXCEPT !.idx = cleanup.idx + 1,
                                           !.log = Append(ended, Spawn(<<>>, cleanup.cmds[cleanup.idx + 1]))]
             /\ UNCHANGED exited
        ELSE /\ cleanup' = [cleanup EXCEPT !.st = "done", !.log = ended]
             /\ exited' = "exit(0)"
  /\ UNCHANGED << commands, cleanupCommands, cleanupCalled, listenerRuns, laterSigint >>
  /\ UNCHANGED << emitted, events >>
  /\ UNCHANGED deviceSetVars
  /\ AppLeavesLibrary

\* executeCleanupCommands, the function executeAndReturnOnce wraps: it runs
\* the cleanup batch up to its first execa; with nothing to run the handler
\* goes on to process.exit(0)
executeCleanupCommands ==
  LET batch == CleanupCommandList
  IN IF batch = <<>>
     THEN /\ cleanup' = [st |-> "done", cmds |-> <<>>, idx |-> 0, log |-> cleanup.log]
          /\ exited' = "exit(0)"
     ELSE /\ cleanup' = [st |-> "awaitExeca", cmds |-> batch, idx |-> 1,
                         log |-> Append(cleanup.log, Spawn(<<>>, batch[1]))]
          /\ UNCHANGED exited

\* (mutant) the wrapper of executeAndReturnOnce does not test `called`
Sigint_noOnce ==
  /\ exited = "no"
  /\ laterSigint' = cleanupCalled
  /\ cleanupCalled' = TRUE
  /\ executeCleanupCommands
  /\ UNCHANGED << commands, cleanupCommands, listenerRuns >>
  /\ UNCHANGED << emitted, events >>
  /\ UNCHANGED deviceSetVars
  /\ AppLeavesLibrary

\* process.on('SIGINT'): await executeCleanupCommands(); process.exit(0).
\* The first call runs the cleanup; a later call gets a promise that never
\* settles, so its handler stays suspended.
Sigint ==
  /\ exited = "no"
  /\ IF ~cleanupCalled
     THEN /\ cleanupCalled' = TRUE
          /\ executeCleanupCommands
          /\ UNCHANGED laterSigint
     ELSE /\ laterSigint' = TRUE
          /\ UNCHANGED << cleanupCalled, cleanup, exited >>
  /\ UNCHANGED << commands, cleanupCommands, listenerRuns >>
  /\ UNCHANGED << emitted, events >>
  /\ UNCHANGED deviceSetVars
  /\ AppLeavesLibrary

\* args.commands: a command with the deviceid variable and blanks around it,
\* a blank command, a command without variable
AppCommandLists ==
  { << <<" ", "s", " ", "@", "{", "_", "_">> \o VAR_KEY_DEVICE_ID \o <<"_", "_", "}", " ">>,
       <<" ">>,
       <<"e">> >> }

\* args.cleanupCommands: with a command for no device in particular, or with
\* commands for the connected devices only
AppCleanupLists ==
  { << <<"k">>, <<"r", " ", "@", "{", "_", "_">> \o VAR_KEY_DEVICE_ID \o <<"_", "_", "}">> >>,
    << <<"r", " ", "@", "{", "_", "_">> \o VAR_KEY_DEVICE_ID \o <<"_", "_", "}">> >> }

\* the rosters the tracker emits to the app
AppRosters ==
  { << [id |-> IdA, status |-> "offline"], [id |-> IdB, status |-> "device"] >>,
    << [id |-> IdA, status |-> "device"], [id |-> IdB, status |-> "device"] >> }

\* runApp after tracker.start(): the listener and the SIGINT handler are
\* registered, nothing has been emitted
InitApp ==
  /\ InitCommon
  /\ hasErrorListener = FALSE
  /\ script = <<>>
  /\ cmd = <<>>
  /\ deviceData = <<>>
  /\ wire = <<>>
  /\ commands \in AppCommandLists
  /\ cleanupCommands \in AppCleanupLists

NextApp ==
  \/ \E roster \in AppRosters : TrackerEmits(roster)
  \/ \E k \in 1..Len(listenerRuns), ok \in BOOLEAN : ListenerChildExits(k, ok)
  \/ \E ok \in BOOLEAN : CleanupChildExits(ok)
  \/ Sigint

SpecApp == InitApp /\ [][NextApp]_vars

(***************************************************************************)
(* Claims                                                                  *)
(***************************************************************************)
Count(seq, x) == Cardinality({i \in 1..Len(seq) : seq[i] = x})
IsPrefix(s, t) == Len(s) <= Len(t) /\ s = SubSeq(t, 1, Len(s))
Ids(roster) == {roster[i].id : i \in 1..Len(roster)}

\* C1: a readExactBytes(n) that resolved holds exactly n bytes, the n bytes
\* that were next in the stream when it was served, and the buffer holds
\* exactly the delivered bytes no read has returned: nothing else was removed.
C1_ReadExactBytesExact ==
  /\ consumed <= delivered
  /\ buffer = SubSeq(wire, consumed + 1, delivered)
  /\ \A who \in Readers :
       rd[who].st = "resolved" =>
         /\ Len(rd[who].val) = rd[who].n
         /\ rd[who].val = SubSeq(wire, rd[who].from + 1, rd[who].from + rd[who].n)

\* a read of 3 bytes that had to wait, served at stream offset 2 when the
\* fifth byte came, with a sixth byte coalesced in the chunk left in the buffer
C1_Witness ==
  /\ rd["r1"].st = "resolved"
  /\ rd["r1"].n = 3
  /\ rd["r1"].from = 2
  /\ delivered = 6
  /\ buffer = <<"f">>

\* the end of the i-th roster frame in the daemon's byte stream
RECURSIVE FrameEnd(_)
FrameEnd(i) == IF i = 0 THEN 4 ELSE FrameEnd(i - 1) + 4 + Len(RenderRoster(script[i]))

\* the roster frames wholly delivered
CompleteFrames == Cardinality({i \in 1..Len(script) : FrameEnd(i) <= delivered})

\* C2: the rosters emitted are the rosters of the frames on the wire, in wire
\* order, each once (emitted is a prefix of the daemon's script); whenever the
\* session has run as far as it can and the caller has not stopped it, every
\* frame wholly delivered has been emitted; the diff engine has folded the
\* last emitted roster.
C2_RostersInWireOrder ==
  /\ IsPrefix(emitted, script)
  /\ Count(events, "devicesChanged") = Len(emitted)
  /\ emitted # <<>> => lastRoster = emitted[Len(emitted)]
  /\ (~MicrotaskRunnable /\ ~callerStopped /\ TaskStep) => Len(emitted) = CompleteFrames

\* two identical non-empty rosters in a row, both emitted
C2_Witness ==
  /\ Len(emitted) = 2
  /\ emitted[1] = emitted[2]
  /\ emitted[1] # <<>>
  /\ Len(devices) = 1

\* the entries of a roster that are the last with their id
LastOccurrences(roster) ==
  {roster[i] : i \in {k \in 1..Len(roster) : \A j \in (k + 1)..Len(roster) : roster[j].id # roster[k].id}}

\* C3: after every update the authoritative roster has exactly the content of
\* the roster just received: one entry per id of that roster, with the status
\* of the id's last occurrence, and nothing else.
C3_AuthoritativeIsLatest ==
  /\ Range(devices) = LastOccurrences(lastRoster)
  /\ Len(devices) = Cardinality(Ids(lastRoster))

\* an update that removes one device and receives an id twice
C3_Witness ==
  /\ prevDevices = << [id |-> IdB, status |-> "offline"] >>
  /\ lastRoster = << [id |-> IdA, status |-> "device"], [id |-> IdA, status |-> "unauthorized"] >>
  /\ devices = << [id |-> IdA, status |-> "unauthorized"] >>

StatusIn(roster, id) == (CHOOSE d \in LastOccurrences(roster) : d.id = id).status

\* the diff of the claim between an old roster and a list of new entries
ClaimedDiff(old, new) ==
  LET changedOnes == SelectSeq(new, LAMBDA d : d.id \in Ids(old) /\ StatusIn(old, d.id) # d.status)
  IN [ added |-> SelectSeq(new, LAMBDA d : d.id \notin Ids(old)),
       removed |-> SelectSeq(old, LAMBDA d : d.id \notin Ids(new)),
       changed |-> [i \in 1..Len(changedOnes) |->
                      [ device |-> changedOnes[i],
                        oldStatus |-> StatusIn(old, changedOnes[i].id),
                        newStatus |-> changedOnes[i].status ]] ]

\* a roster with each id once: at the place of the id's first occurrence, with
\* the entry of its last occurrence
RECURSIVE OncePerId(_, _)
OncePerId(roster, rest) ==
  IF rest = <<>> THEN <<>>
  ELSE LET d == Head(rest)
           first == \A j \in 1..(Len(roster) - Len(rest)) : roster[j].id # d.id
       IN (IF first THEN << CHOOSE e \in LastOccurrences(roster) : e.id = d.id >> ELSE <<>>)
            \o OncePerId(roster, Tail(rest))

\* C4 as stated: added, removed and changed hold exactly the entries the claim
\* names, taken over all entries of the newly received roster (compared as sets).
C4_DiffOverAllEntries ==
  LET d == ClaimedDiff(prevDevices, lastRoster)
  IN /\ Range(changeset.added) = Range(d.added)
     /\ Range(changeset.removed) = Range(d.removed)
     /\ Range(changeset.changed) = Range(d.changed)

\* C4: added, removed and changed are as the claim says (and in roster order)
\* when an id repeated in the newly received roster counts once, with the
\* status of its last occurrence.
C4_DiffOverIds == changeset = ClaimedDiff(prevDevices, OncePerId(lastRoster, lastRoster))

\* the example of the specification
C4_Witness ==
  /\ prevDevices = << [id |-> IdA, status |-> "device"], [id |-> IdB, status |-> "offline"] >>
  /\ lastRoster = << [id |-> IdA, status |-> "unauthorized"], [id |-> IdC, status |-> "device"] >>
  /\ changeset.added = << [id |-> IdC, status |-> "device"] >>
  /\ changeset.removed = << [id |-> IdB, status |-> "offline"] >>
  /\ changeset.changed = << [ device |-> [id |-> IdA, status |-> "unauthorized"],
                              oldStatus |-> "device", newStatus |-> "unauthorized" ] >>

\* nothing more will run: no continuation is ready, and the socket has
\* closed or the process has exited
Finished == ~MicrotaskRunnable /\ (sock = "closed" \/ ProcessExited)

Before(seq, x, y) == \E i, j \in 1..Len(seq) : i < j /\ seq[i] = x /\ seq[j] = y

\* C5: once start() has resolved, when the transport has closed (cleanly or
\* by a stream error) and nothing more will run, the session is not tracking
\* and a close event was emitted, after an error event if the stream failed.
C5_CloseAlwaysReported ==
  (pcStart = "resolved" /\ hasErrorListener /\ Finished) =>
    /\ ~tracking
    /\ Count(events, "close") >= 1
    /\ hadError => Before(events, "error", "close")

\* C6: when the socket's 'close' event has been dispatched, no readExactBytes
\* call is left pending.
C6_CloseRejectsPendingReads ==
  [][(sock # "closed" /\ sock' = "closed") => \A who \in Readers : rd'[who].st # "pending"]_vars

\* C7: after the caller's stop(), once the socket has closed and nothing more
\* will run, nothing of the session is suspended: no read is pending, the
\* read loop has ended, start() has settled and the session is not tracking.
C7_StopLeavesNothingSuspended ==
  (callerStopped /\ sock = "closed" /\ ~MicrotaskRunnable /\ uncaught = {}) =>
    /\ \A who \in Readers : rd[who].st # "pending"
    /\ pcLoop \notin {"awaitHeader", "awaitPayload"}
    /\ pcStart \in {"resolved", "rejected"}
    /\ ~tracking

AnsweredOkay == Len(wire) >= 4 /\ Take(wire, 4) = OKAY
AnsweredFail == Len(wire) >= 4 /\ Take(wire, 4) = FAIL

\* C8: a session the caller stopped, whose handshake the daemon accepted and
\* whose stream never failed, has emitted no error event.
C8_StopEmitsNoError ==
  (callerStopped /\ AnsweredOkay /\ ~hadError) => Count(events, "error") = 0

\* stop() while the read loop waits for a frame, the socket closed, the close
\* event emitted, with an 'error' listener subscribed
C8_Witness ==
  /\ callerStopped
  /\ stoppedIn = "resolved"
  /\ hasErrorListener
  /\ sock = "closed"
  /\ rd["loop"].st = "pending"
  /\ events = <<"devicesChanged", "close">>

\* C9: a stream error after start() resolved never escapes (no uncaught
\* exception, no unhandled rejection); once the continuations have run the
\* session is torn down, and a subscribed listener got exactly one error event.
C9_LoopErrorContained ==
  (pcStart = "resolved" /\ hadError) =>
    /\ uncaught = {}
    /\ ~MicrotaskRunnable =>
         /\ ~tracking
         /\ ~isConnected
         /\ hasErrorListener => Count(events, "error") = 1

CommandFailed == Err("ADB command failed", TRACK_DEVICES_COMMAND)

\* C10: when the daemon answers FAIL the session never gets past the
\* handshake (no roster read or emitted, no read loop, no close wait), and
\* once sendCommand has taken the answer start() is rejected with the
\* command-failed error; start() rejects with that error in no other case.
C10_FailRejectsStart ==
  /\ AnsweredFail =>
       /\ emitted = <<>>
       /\ devices = <<>>
       /\ pcLoop = "idle"
       /\ wfc = "none"
       /\ pcStart \notin {"awaitHeader", "awaitPayload", "resolved"}
       /\ (consumed >= 4 /\ ~MicrotaskRunnable) =>
            /\ pcStart = "rejected"
            /\ startError = CommandFailed
            /\ consumed = 4
  /\ (pcStart = "rejected" /\ startError.message = CommandFailed.message) => AnsweredFail

\* FAIL followed by a reason, both in the buffer when sendCommand reads
C10_Witness ==
  /\ AnsweredFail
  /\ pcStart = "rejected"
  /\ startError = CommandFailed
  /\ buffer = EncodeFrame(<<"n", "o">>)
  /\ ~tracking

\* sendCommand threw on the status token and start() has rejected with it
HandshakeFailed ==
  /\ pcStart = "rejected"
  /\ startError.message \in {"ADB command failed", "Unexpected response"}

\* C11: when sendCommand fails on the status token (FAIL, or four bytes that
\* are neither OKAY nor FAIL), start() rejects with that error, a subscribed
\* 'error' listener got exactly one error event, carrying the same error, the
\* socket is destroyed, the session is not tracking, and neither the read
\* loop nor the close wait was started; and every such token, once read, ends
\* start() this way.
C11_HandshakeFailureAborts ==
  /\ HandshakeFailed =>
       /\ errorEvents = (IF hasErrorListener THEN <<startError>> ELSE <<>>)
       /\ Count(events, "error") = Len(errorEvents)
       /\ ~isConnected
       /\ sock \in {"destroyed", "closed"}
       /\ ~tracking
       /\ pcLoop = "idle"
       /\ wfc = "none"
       /\ emitted = <<>>
       /\ uncaught = {}
  /\ (Len(wire) >= 4 /\ Take(wire, 4) # OKAY /\ consumed >= 4 /\ ~MicrotaskRunnable) =>
       /\ HandshakeFailed
       /\ startError = sendCommandOutcome(TRACK_DEVICES_COMMAND, Take(wire, 4))

\* the daemon answered OKOK: start() rejected with the unexpected-response
\* error, the listener got it once, the socket has closed
C11_Witness ==
  /\ HandshakeFailed
  /\ startError = Err("Unexpected response", <<"O", "K", "O", "K">>)
  /\ hasErrorListener
  /\ errorEvents = <<startError>>
  /\ sock = "closed"
  /\ ~callerStopped

\* the first four bytes the peer sends: the status token sendCommand reads
StatusToken == Take(wire, 4)

\* C12: sendCommand writes one frame and reads one 4-byte token; it returns
\* only on OKAY, throws the command-failed error only on FAIL and the
\* unexpected-response error only on any other token (a read that the stream
\* failed throws the stream's error), and once the token is read one of the
\* three has happened.
C12_SendCommandOutcomes ==
  /\ pcSend # "idle" => written = <<CommandFrame(cmd)>>
  /\ pcSend = "returned" => (StatusToken = OKAY /\ consumed = 4 /\ sendError = NoError)
  /\ pcSend = "threw" =>
       \/ hadError /\ consumed = 0 /\ sendError = streamErr
       \/ consumed = 4 /\ StatusToken = FAIL /\ sendError = Err("ADB command failed", cmd)
       \/ /\ consumed = 4
          /\ StatusToken \notin {OKAY, FAIL}
          /\ sendError = Err("Unexpected response", StatusToken)
  /\ (consumed = 4 /\ ~MicrotaskRunnable) => pcSend \in {"returned", "threw"}
  /\ consumed \in {0, 4}

\* the peer answered "fail" in lower case: the unexpected-response error
C12_Witness ==
  /\ cmd = TRACK_DEVICES_COMMAND
  /\ pcSend = "threw"
  /\ sendError = Err("Unexpected response", <<"f", "a", "i", "l">>)
  /\ buffer = <<>>

\* C13: the frame written for a command whose UTF-8 encoding has at most
\* 0xFFFF bytes is 4 lowercase hexadecimal digits that decode to the number of
\* bytes that follow, and then the bytes of the command.
C13_LengthPrefixCountsBytes ==
  (pcSend # "idle" /\ Len(encodeUtf8(cmd)) <= MaxFrameLength) =>
    LET frame == written[1]
    IN /\ Len(frame) = 4 + Len(encodeUtf8(cmd))
       /\ \A i \in 1..4 : \E d \in 1..16 : frame[i] = HexDigits[d]
       /\ parseInt16(Take(frame, 4)) = Len(encodeUtf8(cmd))
       /\ Drop(frame, 4) = encodeUtf8(cmd)

\* C14: for a command whose UTF-8 encoding has more than 0xFFFF bytes
\* sendCommand writes nothing and reads nothing, and fails.
C14_TooLongFailsFast ==
  (pcSend # "idle" /\ Len(encodeUtf8(cmd)) > MaxFrameLength) =>
    /\ written = <<>>
    /\ consumed = 0
    /\ rd["cmd"].st = "idle"
    /\ pcSend = "threw"

\* C15: when the connection cannot be established connect() is rejected with
\* the socket's error, nothing is thrown anywhere else, and the transport is
\* not connected, whether or not a read is pending.
C15_ConnectFailureRejects ==
  streamErr = SocketError("ECONNREFUSED") =>
    /\ connectP = "rejected"
    /\ uncaught = {}
    /\ ~isConnected

\* the session is started: start() is connecting or handshaking, or it has
\* resolved, and the connection is being set up or is open
Started ==
  /\ pcStart \in {"awaitConnect", "awaitStatus", "awaitHeader", "awaitPayload", "resolved"}
  /\ sock \in {"connecting", "open"}

\* everything but the record of the later start() calls
sessionVars ==
  << wire, delivered, sock, streamErr, written, buffer, isConnected, pending, rd, connectP, wfc,
     tracking, pcStart, pcLoop, startError, hasErrorListener, devices, changeset,
     uncaught, script, consumed, emitted, events, prevDevices, lastRoster,
     callerStopped, stoppedIn, errorEvents, updated, held >>

\* C16: a started session has this.tracking set, and a start() called on a
\* started session returns at once and changes nothing: no connection, no
\* write, no read, no loop, no event, no change of state.
C16_StartOnStartedIsNoOp ==
  /\ [](Started => tracking)
  /\ [][(Started /\ startCalls' # startCalls) =>
          /\ startCalls'[Len(startCalls')].returnedAtOnce
          /\ UNCHANGED sessionVars]_vars

\* start() called again while the first call waits for the status token
C16_Witness ==
  /\ startCalls = << [returnedAtOnce |-> TRUE, emitted |-> 0] >>
  /\ pcStart = "awaitStatus"
  /\ sock = "open"
  /\ written = <<CommandFrame(TRACK_DEVICES_COMMAND)>>

\* C17: a start() called on a session that has closed or failed opens no
\* connection, does not track and emits no roster.
C17_ClosedSessionNotReusable ==
  \A i \in 1..Len(startCalls) :
    ~startCalls[i].returnedAtOnce =>
      /\ sock \notin {"connecting", "open"}
      /\ ~tracking
      /\ Len(emitted) = startCalls[i].emitted

\* C18: the device set always holds the content of the last roster emitted
\* (nothing before the first), and no step but the emission of a roster
\* changes it: not a failed handshake, a stream error, a close or a stop().
C18_FailureKeepsDevices ==
  /\ [](Range(devices) = (IF emitted = <<>> THEN {} ELSE LastOccurrences(emitted[Len(emitted)])))
  /\ [][emitted' = emitted => devices' = devices]_vars

\* the stream failed while the loop waited, the loop reported the error and
\* stopped the session, and the device set still holds the last roster
C18_Witness ==
  /\ hadError
  /\ sock = "errored"
  /\ pcLoop = "done"
  /\ ~tracking
  /\ Count(events, "error") = 1
  /\ Len(emitted) = 2
  /\ devices = << [id |-> IdA, status |-> "device"], [id |-> IdB, status |-> "device"] >>

\* the tokens of a line: its maximal runs of characters that are not white space
RECURSIVE Tokens(_)
Tokens(line) ==
  IF line = <<>> THEN <<>>
  ELSE IF IsSpace(Head(line)) THEN Tokens(Tail(line))
  ELSE LET ends == {k \in 1..Len(line) : IsSpace(line[k])}
           n == IF ends = {} THEN Len(line) ELSE (CHOOSE k \in ends : \A j \in ends : k <= j) - 1
       IN <<Take(line, n)>> \o Tokens(Drop(line, n))

\* the lines of a payload: the stretches between its LF characters
PayloadLines(payload) ==
  LET cuts == <<0>> \o SelectSeq([i \in 1..Len(payload) |-> i], LAMBDA i : payload[i] = "\n")
                \o <<Len(payload) + 1>>
  IN [k \in 1..(Len(cuts) - 1) |-> SubSeq(payload, cuts[k] + 1, cuts[k + 1] - 1)]

\* C19: parseDeviceData returns, in payload order, one record for each line
\* that has exactly two tokens (its id and its decoded status) and nothing for
\* any other line.
C19_DecodeTwoTokenLines ==
  LET lines == PayloadLines(deviceData)
      record(line) == IF Len(Tokens(line)) = 2
                      THEN << [id |-> Tokens(line)[1], status |-> DeviceStatus_fromString(Tokens(line)[2])] >>
                      ELSE <<>>
  IN deviceInfos = Flatten([k \in 1..Len(lines) |-> record(lines[k])])

\* a line of three tokens followed by a padded line ending in CR LF
C19_Witness ==
  /\ deviceData = <<"a", " ", "d", "e", "v", "i", "c", "e", " ", "x", "\n",
                    " ", "b", " ", " ", "o", "f", "f", "l", "i", "n", "e", "\r", "\n">>
  /\ deviceInfos = << [id |-> IdB, status |-> "offline"] >>

\* String.prototype.toLowerCase
toLowerCase(s) ==
  [i \in 1..Len(s) |-> IF \E k \in 1..26 : UpperLetters[k] = s[i]
                       THEN LowerLetters[CHOOSE k \in 1..26 : UpperLetters[k] = s[i]]
                       ELSE s[i]]

\* C20: a line whose status token is a status name in any letter case decodes
\* to that status, and a line with any other status token decodes to unknown.
C20_StatusNamesDecode ==
  LET lines == PayloadLines(deviceData)
      toks == Tokens(lines[1])
      name == toLowerCase(toks[2])
  IN (Len(lines) = 2 /\ lines[2] = <<>> /\ Len(toks) = 2) =>
       /\ Len(deviceInfos) = 1
       /\ deviceInfos[1].status =
            (IF \E m \in StatusNames : m[1] = name
             THEN (CHOOSE m \in StatusNames : m[1] = name)[2]
             ELSE "unknown")

\* the positions of the entries of a roster that have status device
DevicePositions(roster) == {i \in 1..Len(roster) : roster[i].status = "device"}

\* the k-th smallest element of a set of numbers
Nth(S, k) == CHOOSE x \in S : Cardinality({y \in S : y < x}) = k - 1

\* everything but the record of the getConnectedDevices() call
allButConnectedSeen ==
  << wire, delivered, sock, streamErr, written, buffer, isConnected, pending, rd, connectP, wfc,
     tracking, pcStart, pcLoop, startError, hasErrorListener, devices, changeset,
     uncaught, script, consumed, emitted, events, prevDevices, lastRoster,
     callerStopped, stoppedIn, errorEvents, startCalls, cmd, pcSend, sendError,
     deviceData, deviceInfos, updated, held, templated, appVars >>

\* C21: for every authoritative roster getConnectedDevices() returns exactly
\* the entries of getDevices() whose status is device, in the same relative
\* order (the k-th entry returned is the k-th entry with status device), and
\* the call changes no state.
C21_ConnectedDevicesFiltered ==
  /\ [](connectedSeen.called =>
          LET pos == DevicePositions(connectedSeen.devices)
          IN /\ Len(connectedSeen.result) = Cardinality(pos)
             /\ \A k \in 1..Cardinality(pos) :
                  connectedSeen.result[k] = connectedSeen.devices[Nth(pos, k)])
  /\ [][connectedSeen' # connectedSeen =>
          (connectedSeen'.devices = devices /\ UNCHANGED allButConnectedSeen)]_vars

\* a roster of three with an offline device between two connected ones
C21_Witness ==
  /\ connectedSeen.called
  /\ connectedSeen.devices = << [id |-> IdA, status |-> "device"], [id |-> IdB, status |-> "offline"],
                                [id |-> IdC, status |-> "device"] >>
  /\ connectedSeen.result = << [id |-> IdA, status |-> "device"], [id |-> IdC, status |-> "device"] >>

\* C26: every roster getDevices() returns is a complete snapshot: the initial
\* empty roster or the roster after one whole update (exactly the entries of
\* the roster last received, one per id), never a part of a diff; and a roster
\* returned earlier is not altered by the updates that follow.
C26_SnapshotsAreWhole ==
  /\ [](\A i \in 1..Len(held) : held[i].now = held[i].returned)
  /\ [][Len(held') > Len(held) =>
          LET h == held'[Len(held')]
          IN /\ h.returned = devices
             /\ devices' = devices
             /\ IF updated
                THEN /\ Range(h.returned) = LastOccurrences(lastRoster)
                     /\ Len(h.returned) = Cardinality(Ids(lastRoster))
                ELSE h.returned = <<>>]_vars

\* a roster returned after the first update and kept over a second update,
\* and the roster returned after that one
C26_Witness ==
  /\ Len(held) = 2
  /\ ~held[1].current
  /\ held[1].returned = << [id |-> IdA, status |-> "device"], [id |-> IdB, status |-> "offline"] >>
  /\ held[2].current
  /\ held[2].returned = << [id |-> IdA, status |-> "device"], [id |-> IdB, status |-> "unauthorized"] >>

\* the replacement the claim describes: a placeholder is @{name} with name a
\* key of the table; it becomes the value of the key, everything else stays
ClaimedPlaceholder(s, templateVars) ==
  {name \in DOMAIN templateVars :
     /\ Len(s) >= 2 + Len(name) + 1
     /\ Take(s, 2 + Len(name) + 1) = <<"@", "{">> \o name \o <<"}">>}

RECURSIVE ClaimedReplace(_, _)
ClaimedReplace(s, templateVars) ==
  IF s = <<>> THEN <<>>
  ELSE LET names == ClaimedPlaceholder(s, templateVars)
       IN IF names = {}
          THEN <<Head(s)>> \o ClaimedReplace(Tail(s), templateVars)
          ELSE LET name == CHOOSE n \in names : TRUE
               IN templateVars[name] \o ClaimedReplace(Drop(s, 2 + Len(name) + 1), templateVars)

\* C24: replaceTemplateVars(cmd, vars) replaces every @{name} of cmd whose
\* name is a key of vars by the value of the key and leaves the rest of cmd,
\* placeholders with other names included, as it is.
C24_PlaceholdersReplaced ==
  templated.called => templated.result = ClaimedReplace(templated.cmd, templated.vars)

\* the position of a suspended read among the suspended reads
PendingIndex(who) == CHOOSE i \in 1..Len(pending) : pending[i].who = who

\* q's readExactBytes was issued before r's, r being served in this step:
\* q is suspended, and r is called in this step or was suspended after q
IssuedBefore(q, r) ==
  /\ q # r
  /\ rd[q].st = "pending"
  /\ \/ rd[r].st = "idle"
     \/ rd[r].st = "pending" /\ PendingIndex(q) < PendingIndex(r)

\* C25: outstanding readExactBytes calls are satisfied in the order in which
\* they were issued: when a call is served, every call issued before it and
\* still outstanding is served too, with bytes that come earlier in the
\* stream.
C25_ReadsServedInIssueOrder ==
  [][\A q, r \in Readers :
       (IssuedBefore(q, r) /\ rd'[r].st = "resolved")
         => (rd'[q].st = "resolved" /\ rd'[q].from < rd'[r].from)]_vars

\* sendCommand has settled after reading a status token
TokenRead ==
  /\ pcSend \in {"returned", "threw"}
  /\ sendError.message \in {"", "ADB command failed", "Unexpected response"}

\* C27: sendCommand takes exactly the 4 status bytes out of the receive
\* buffer, whatever the token (and nothing when the read fails): what the
\* daemon sent after the token stays in the buffer, and the next read on the
\* transport returns the bytes that follow the token in the stream.
C27_OnlyStatusBytesConsumed ==
  /\ (TokenRead /\ rd["r1"].st # "resolved") =>
       (consumed = 4 /\ buffer = SubSeq(wire, 5, delivered))
  /\ (TokenRead /\ rd["r1"].st = "resolved") =>
       /\ rd["r1"].from = 4
       /\ rd["r1"].val = SubSeq(wire, 5, 4 + rd["r1"].n)
       /\ consumed = 4 + rd["r1"].n
  /\ (pcSend = "threw" /\ ~TokenRead /\ rd["r1"].st # "resolved") => consumed = 0

\* FAIL followed by a length-prefixed reason: sendCommand threw, and the next
\* read of 3 bytes returned the head of the reason's length
C27_Witness ==
  /\ wire = FAIL \o EncodeFrame(<<"n", "o">>)
  /\ pcSend = "threw"
  /\ sendError = Err("ADB command failed", cmd)
  /\ rd["r1"].st = "resolved"
  /\ rd["r1"].val = <<"0", "0", "0">>
  /\ buffer = <<"2", "n", "o">>

\* C28: a roster frame whose 4-byte header is no valid hexadecimal length is
\* a protocol error: no roster is emitted for it (the rosters emitted are
\* those of the well-formed frames) and the device set keeps the devices of
\* the last well-formed roster.
C28_BadHeaderEmitsNothing ==
  /\ IsPrefix(emitted, script)
  /\ emitted # <<>> =>
       devices = script[IF Len(emitted) < Len(script) THEN Len(emitted) ELSE Len(script)]

\* the roster has an entry with this id and the status device
ConnectedIn(roster, id) == \E i \in 1..Len(roster) : roster[i].id = id /\ roster[i].status = "device"

\* the device connects with the k-th emitted roster: connected there, and not
\* connected in the roster emitted before it
ConnectsAt(k, id) ==
  /\ ConnectedIn(emitted[k], id)
  /\ k > 1 => ~ConnectedIn(emitted[k - 1], id)

\* C29: the connect commands are executed for a device only when it
\* connects: every command the listener of a roster event has started is for
\* a device that connects with that roster, so a device that keeps the status
\* device from one roster to the next gets no command again.
C29_CommandsOnlyOnConnect ==
  \A k \in 1..Len(listenerRuns) : \A j \in 1..Len(listenerRuns[k].log) :
    ConnectsAt(k, listenerRuns[k].log[j].device)

\* C30: the commands of different roster events do not overlap: when a
\* command of a later roster event has been started, the listener of every
\* earlier roster event has finished all of its commands.
C30_RosterBatchesSequential ==
  \A k \in 1..Len(listenerRuns) : \A later \in (k + 1)..Len(listenerRuns) :
    listenerRuns[later].log # <<>> => listenerRuns[k].st = "done"

\* the placeholder of the device id in a configured command
DeviceIdToken == <<"@", "{", "_", "_", "d", "e", "v", "i", "c", "e", "i", "d", "_", "_", "}">>

\* the text with every placeholder of the device id replaced by the id
RECURSIVE WithDeviceId(_, _)
WithDeviceId(text, id) ==
  IF text = <<>> THEN <<>>
  ELSE IF Head(text) = Head(DeviceIdToken) /\ IsPrefix(DeviceIdToken, text)
       THEN id \o WithDeviceId(SubSeq(text, Len(DeviceIdToken) + 1, Len(text)), id)
       ELSE <<Head(text)>> \o WithDeviceId(Tail(text), id)

\* the configured connect commands as they are to be executed for a device:
\* the non-blank ones, in the configured order, with the device's id
ConnectCommandsFor(id) ==
  LET given == SelectSeq(commands, LAMBDA c : \E i \in 1..Len(c) : c[i] # " ")
  IN [i \in 1..Len(given) |-> WithDeviceId(trim(given[i]), id)]

\* the commands the listener of the k-th roster event has started for a device
StartedFor(k, id) == SelectSeq(listenerRuns[k].log, LAMBDA e : e.device = id)

\* the started commands are the first of the expected ones, in order, each
\* started after the one before it ended well
RunInOrder(started, expected) ==
  /\ Len(started) <= Len(expected)
  /\ \A j \in 1..Len(started) : started[j].text = expected[j]
  /\ \A j \in 1..(Len(started) - 1) : started[j].st = "ok"

\* the batch is over: every command ended well, or the batch ended at the
\* first command that failed
RunComplete(started, expected) ==
  /\ started # <<>>
  /\ \/ started[Len(started)].st = "failed"
     \/ Len(started) = Len(expected) /\ started[Len(started)].st = "ok"

CleanupCommandsAtSigint ==
  LET given == SelectSeq(cleanupCommands, LAMBDA c : \E i \in 1..Len(c) : c[i] # " ")
      ids == [i \in 1..Cardinality(DevicePositions(devices)) |->
                devices[Nth(DevicePositions(devices), i)].id]
      each(c) == IF WithDeviceId(c, <<>>) # c
                 THEN [i \in 1..Len(ids) |-> WithDeviceId(trim(c), ids[i])]
                 ELSE <<trim(c)>>
      RECURSIVE all(_)
      all(cs) == IF cs = <<>> THEN <<>> ELSE each(Head(cs)) \o all(Tail(cs))
  IN all(given)

\* C23: at a SIGINT the cleanup commands are executed and the process exits
\* with process.exit(0) only after they have finished; however many SIGINTs
\* arrive the cleanup is carried out at most once, and a later SIGINT changes
\* nothing, so it cannot make the process exit before the first cleanup has
\* completed.
C23_CleanupOnceThenExit ==
  /\ [](/\ ~cleanupCalled => cleanup.log = <<>> /\ exited # "exit(0)"
        /\ RunInOrder(cleanup.log, cleanup.cmds)
        /\ exited = "exit(0)" =>
             /\ cleanup.st = "done"
             /\ cleanup.cmds # <<>> => RunComplete(cleanup.log, cleanup.cmds))
  /\ [][/\ cleanupCalled' # cleanupCalled => cleanup'.cmds = CleanupCommandsAtSigint
        /\ laterSigint' # laterSigint =>
             UNCHANGED << cleanup, exited, listenerRuns, cleanupCalled >>]_vars

\* a second SIGINT arrived while the cleanup was running; the process
\* has exited after the three cleanup commands (two devices were connected)
\* ended well
C23_Witness ==
  /\ laterSigint
  /\ exited = "exit(0)"
  /\ Len(cleanup.log) = 3
  /\ cleanup.log[1].text = <<"k">>
  /\ cleanup.log[2].text = <<"r", " ">> \o IdA
  /\ cleanup.log[3].text = <<"r", " ">> \o IdB
  /\ cleanup.log[3].st = "ok"

\* C31: after the caller's stop() has returned the session emits no further
\* roster: no step taken after it appends to the devicesChanged events,
\* whatever was buffered or half read when stop() was called.
C31_NoRosterAfterStop ==
  [][callerStopped => emitted' = emitted]_vars

\* C32: after any sequence of roster updates, rosters with a repeated id
\* included, the authoritative roster holds each device id at most once.
C32_EachIdOnce ==
  \A i, j \in 1..Len(devices) : devices[i].id = devices[j].id => i = j

\* the device set held a and b; a roster naming b twice has been applied: b
\* is there once, with the status named last
C32_Witness ==
  /\ prevDevices = << [id |-> IdA, status |-> "device"], [id |-> IdB, status |-> "device"] >>
  /\ lastRoster = << [id |-> IdB, status |-> "device"], [id |-> IdB, status |-> "offline"] >>
  /\ devices = << [id |-> IdB, status |-> "offline"] >>

\* the batch is at the command it started last, and no command before the
\* last one is still running
AtLastStarted(b) ==
  /\ \A j \in 1..(Len(b.log) - 1) : b.log[j].st # "running"
  /\ b.st = "awaitExeca" =>
       /\ b.log # <<>>
       /\ b.log[Len(b.log)].st = "running"
       /\ b.log[Len(b.log)].text = b.cmds[b.idx]
  /\ b.st = "done" /\ b.log # <<>> => b.log[Len(b.log)].st # "running"

\* a step from b to c that starts a command: the command before it has
\* completed; it is the next command of the same list, started after one that
\* ended well, or the first command of the batch of a later device
StartsNext(b, c) ==
  Len(c.log) > Len(b.log) =>
    /\ Len(c.log) = Len(b.log) + 1
    /\ b.log # <<>> => c.log[Len(b.log)].st \in {"ok", "failed"}
    /\ \/ /\ b.log # <<>>
          /\ c.log[Len(b.log)].st = "ok"
          /\ c.cmds = b.cmds
          /\ c.idx = b.idx + 1
       \/ /\ c.idx = 1
          /\ \/ b.log = <<>>
             \/ "dev" \in DOMAIN c /\ c.dev > b.dev

\* C33: within one batch the commands run strictly in list order, each
\* started only after the one before it has completed; the first command that
\* fails ends the batch; the failure does not reach the caller of the batch:
\* the listener goes on to the batch of its next connected device (when it
\* has returned, a command was started for every connected device of its
\* roster), and the SIGINT handler goes on to process.exit(0).
C33_BatchSequentialFailureContained ==
  /\ [](/\ \A k \in 1..Len(listenerRuns) :
             /\ AtLastStarted(listenerRuns[k])
             /\ listenerRuns[k].st = "done" =>
                  \A i \in DevicePositions(emitted[k]) :
                    \E j \in 1..Len(listenerRuns[k].log) :
                      listenerRuns[k].log[j].device = emitted[k][i].id
        /\ AtLastStarted(cleanup)
        /\ cleanup.st = "done" => exited = "exit(0)")
  /\ [][/\ \A k \in 1..Len(listenerRuns) : StartsNext(listenerRuns[k], listenerRuns'[k])
        /\ StartsNext(cleanup, cleanup')]_vars

\* the first command for a failed, so the second was not started; the
\* listener went on to b, whose batch ended at its second command, which
\* failed; the listener has returned
C33_Witness ==
  /\ listenerRuns # <<>>
  /\ emitted[1] = << [id |-> IdA, status |-> "device"], [id |-> IdB, status |-> "device"] >>
  /\ listenerRuns[1].st = "done"
  /\ Len(StartedFor(1, IdA)) = 1
  /\ StartedFor(1, IdA)[1].st = "failed"
  /\ Len(StartedFor(1, IdB)) = 2
  /\ StartedFor(1, IdB)[2].st = "failed"

====
